---- MODULE Spec2Model ----
(***************************************************************************)
(* OTP core of the MonitorMBG backend: OtpService (service/otp.rs) with    *)
(* its in-memory store, and the WhatsApp delivery client                   *)
(* (service/whatsapp.rs) it calls.                                         *)
(***************************************************************************)
EXTENDS Integers, Sequences, FiniteSets, Bags, TLC

\* ------------------------------------------------------------------ bounds
\* Number of reference ids send_otp may allocate in one behaviour.
MaxRefs == 1
\* Last instant of the monotonic clock.
MaxTime == 2
\* Largest configured WHATSAPP_MAX_ATTEMPTS explored.
MaxAttemptsCfg == 2
\* Largest configured WHATSAPP_OTP_EXPIRY_SECONDS explored.
MaxExpiryCfg == 1

Refs == 1..MaxRefs

\* ------------------------------------------------------------- input values
\* Strings are sequences of one-character strings.
P_local == <<"0","8","1","2","3","4","5","6","7","8","9">>
P_plus == <<"+","6","2","8","1","2","3","4","5","6","7","8","9">>
P_short == <<"0","8","1","2">>

\* Phones a caller may pass to verify_otp, and to send_otp.
Phones == {P_local, P_plus, P_short}
SendPhones == {P_local, P_short}

\* Codes generate_otp_code may draw, and the codes a caller may submit.
GenCodes == {"123456"}
Codes == GenCodes \cup {"000000"}

NoRef == 0
None == "None"
Set == "Some"

VARIABLES
    config,     \* Arc<Config>.whatsapp
    otps,       \* OtpService.otps: reference_id -> OtpEntry
    now,        \* the monotonic clock read by Instant::now / elapsed
    nextRef,    \* the next fresh reference id (uuid::Uuid::new_v4)
    pending,    \* send_otp calls suspended in client.send_otp(...).await
    last,       \* the call that completed last: its reference id and result
    validCount, \* history: number of Ok(true) results per reference id
    wrongRun,   \* history: number of verify_otp calls that found the entry of
                \* a reference id, while all of them carried a wrong code;
                \* -1 once a call carried the stored code
    called,     \* history: reference ids client.send_otp was called for
    clock,      \* SystemTime::now() in seconds since UNIX_EPOCH
    clockSteps, \* number of times the system clock was advanced
    jwt_secret, \* Config.jwt_secret
    bearer,     \* the token a client holds: what generate_token returned last,
                \* with the inputs of that call (empty before the first call)
    tlast,      \* the token call that completed last
    users,      \* the rows of the users table
    nextUserId, \* the next id the users table generates (uuid_generate_v4)
    inflight,   \* register_user calls suspended between insert and select
    registered, \* history: the register calls that returned Ok
    alast,      \* the register or login call that completed last
    capacity,   \* requests_per_second of RateLimitMiddleware::new
    rnow,       \* the limiter's clock (DefaultClock), in ticks
    tat,        \* the limiter's state: None, or the theoretical arrival time
    window,     \* history: requests allowed at each tick of the last second
    slots,      \* the requests between their arrival and their response
    rlast       \* the request answered last

otpVars == <<config, otps, now, nextRef, pending, last, validCount, wrongRun, called>>

tokVars == <<clock, clockSteps, jwt_secret, bearer, tlast>>

authVars == <<users, nextUserId, inflight, registered, alast>>

limVars == <<capacity, rnow, tat, window, slots, rlast>>

\* The state of the components the OTP service does not touch.
otherVars == <<tokVars, authVars, limVars>>

vars == <<otpVars, otherVars>>

\* ------------------------------------------------------------ pure helpers
Digits == {"0","1","2","3","4","5","6","7","8","9"}

is_ascii_digit(c) == c \in Digits

starts_with(s, p) ==
    /\ Len(s) >= Len(p)
    /\ SubSeq(s, 1, Len(p)) = p

\* s[n..] of Rust, n counted from 0.
skip(s, n) == SubSeq(s, n + 1, Len(s))

\* (\+62|62|0) of the phone regex.
PhonePrefixes == {<<"+","6","2">>, <<"6","2">>, <<"0">>}

\* The phone regex without its end anchor.
is_valid_phone_unanchored(phone) ==
    \E p \in PhonePrefixes :
        /\ starts_with(phone, p)
        /\ LET rest == skip(phone, Len(p)) IN
            /\ Len(rest) >= 9
            /\ \A i \in 1..9 : is_ascii_digit(rest[i])

\* ^(\+62|62|0)[0-9]{9,12}$
is_valid_phone(phone) ==
    \E p \in PhonePrefixes :
        /\ starts_with(phone, p)
        /\ LET rest == skip(phone, Len(p)) IN
            /\ Len(rest) >= 9
            /\ Len(rest) <= 12
            /\ \A i \in 1..Len(rest) : is_ascii_digit(rest[i])

normalize_phone_keep_zero(phone) ==
    SelectSeq(phone, is_ascii_digit)

\* OtpService::normalize_phone
normalize_phone(phone) ==
    LET digits == SelectSeq(phone, is_ascii_digit) IN
    IF starts_with(digits, <<"0">>)
        THEN <<"6","2">> \o skip(digits, 1)
        ELSE digits

\* WhatsAppClient::is_enabled
is_enabled ==
    IF ~config.enabled
        THEN FALSE
        ELSE /\ config.api_url # None
             /\ config.api_token # None
             /\ config.phone_number_id # None

has_client_always ==
    TRUE

\* OtpService::new: whatsapp_client is Some iff config.whatsapp.enabled
has_client ==
    config.enabled

elapsed(entry) == now - entry.created_at

is_expired_inclusive(entry) ==
    elapsed(entry) >= config.otp_expiry_seconds

\* entry.created_at.elapsed() > expiry_duration
is_expired(entry) ==
    elapsed(entry) > config.otp_expiry_seconds

attempts_over_max(entry) ==
    entry.attempts > config.max_attempts

\* entry.attempts >= self.config.whatsapp.max_attempts
attempts_exhausted(entry) ==
    entry.attempts >= config.max_attempts

never_verified(entry) ==
    FALSE

\* if entry.verified
already_verified(entry) ==
    entry.verified

no_increment(entry) ==
    entry

\* entry.attempts += 1
increment_attempts(entry) ==
    [entry EXCEPT !.attempts = @ + 1]

insert(map, key, entry) ==
    [k \in DOMAIN map \cup {key} |-> IF k = key THEN entry ELSE map[k]]

remove_all(map, key) ==
    [k \in {} |-> map[k]]

\* HashMap::remove
remove(map, key) ==
    [k \in DOMAIN map \ {key} |-> map[k]]

Call(op, ref, result, channel) ==
    [op |-> op, ref |-> ref, result |-> result, channel |-> channel]

\* ------------------------------------------------------------------- Init
Options == {None, Set}

\* The provider settings explored: all present, all absent (the default
\* configuration), or exactly one absent.
ProviderSettings ==
    {s \in [api_url : Options, api_token : Options, phone_number_id : Options] :
        Cardinality({f \in {"api_url", "api_token", "phone_number_id"} : s[f] = None})
            \in {0, 1, 3}}

Configs ==
    {c \in [enabled : BOOLEAN,
            api_url : Options,
            api_token : Options,
            phone_number_id : Options,
            otp_expiry_seconds : 1..MaxExpiryCfg,
            max_attempts : 1..MaxAttemptsCfg] :
        /\ [api_url |-> c.api_url, api_token |-> c.api_token,
            phone_number_id |-> c.phone_number_id] \in ProviderSettings
        /\ (~c.enabled => c.api_url = c.api_token /\ c.api_token = c.phone_number_id)}

\* Claims, and the value that stands where a call returned none.
Claims(sub, role, exp, iat) == [sub |-> sub, role |-> role, exp |-> exp, iat |-> iat]

NoClaims == Claims("", "", 0, 0)

\* Result<Claims, AppError> of validate_token.
Ok(claims) == [tag |-> "Ok", claims |-> claims, msg |-> ""]

Unauthorized(msg) == [tag |-> "Unauthorized", claims |-> NoClaims, msg |-> msg]

TokenCall(op, kind, result, status, invoked) ==
    [op |-> op, kind |-> kind, result |-> result, status |-> status,
     invoked |-> invoked]

\* The token components at rest: no token issued, the clock not advanced.
TokenOff ==
    /\ clock = 0
    /\ clockSteps = 0
    /\ jwt_secret = "secret_a"
    /\ bearer = {}
    /\ tlast = TokenCall("new", "none", Ok(NoClaims), "none", FALSE)

\* Result<(String, User), AppError> of register and login: an error with its
\* message, or the id of the user returned and the sub and role the token
\* was generated for.
Reply(tag, msg, user) ==
    [tag |-> tag, msg |-> msg, user |-> user, token |-> [sub |-> 0, role |-> ""]]

Granted(tag, row) ==
    [tag |-> tag, msg |-> "", user |-> row.id,
     token |-> [sub |-> row.id, role |-> row.role]]

\* A completed call: the unique_code it carried after trim, whether it passed
\* the validation of its handler, and its reply.
AuthCall(op, unique_code, valid, reply) ==
    [op |-> op, unique_code |-> unique_code, valid |-> valid, reply |-> reply]

\* The users table empty and no call made.
AuthOff ==
    /\ users = {}
    /\ nextUserId = 1
    /\ inflight = {}
    /\ registered = {}
    /\ alast = AuthCall("new", <<>>, FALSE, Reply("Ok", "", 0))

RequestStep(op, route, status, checked, guarded, handled) ==
    [op |-> op, route |-> route, status |-> status, checked |-> checked,
     guarded |-> guarded, handled |-> handled]

\* The limiter never used and no request in the server.
LimitOff ==
    /\ capacity = 1
    /\ rnow = 0
    /\ tat = -1
    /\ window = <<>>
    /\ slots = EmptyBag
    /\ rlast = RequestStep("new", "none", "none", FALSE, FALSE, FALSE)

Init ==
    /\ config \in Configs
    /\ otps = <<>>
    /\ now = 0
    /\ nextRef = 1
    /\ pending = {}
    /\ last = Call("new", NoRef, "Ok", "none")
    /\ validCount = [r \in Refs |-> 0]
    /\ wrongRun = [r \in Refs |-> 0]
    /\ called = {}
    /\ TokenOff
    /\ AuthOff
    /\ LimitOff

\* ---------------------------------------------------------------- send_otp
NewEntry(phone, code) ==
    [code |-> code, phone |-> phone, created_at |-> now,
     attempts |-> 0, verified |-> FALSE]

\* send_otp, phone rejected by is_valid_phone.
SendOtpInvalidPhone ==
    \E phone \in SendPhones :
        /\ ~is_valid_phone(phone)
        /\ last' = Call("send_otp", NoRef, "BadRequest", "none")
        /\ UNCHANGED <<config, otps, now, nextRef, pending, validCount, wrongRun, called>>
        /\ UNCHANGED otherVars

\* send_otp with whatsapp_client = None: insert and return Ok.
SendOtpNoClient ==
    \E phone \in SendPhones, code \in GenCodes :
        /\ is_valid_phone(phone)
        /\ nextRef <= MaxRefs
        /\ ~has_client
        /\ otps' = insert(otps, nextRef, NewEntry(phone, code))
        /\ nextRef' = nextRef + 1
        /\ last' = Call("send_otp", nextRef, "Ok", "none")
        /\ UNCHANGED <<config, now, pending, validCount, wrongRun, called>>
        /\ UNCHANGED otherVars

\* send_otp with a client: insert, release the lock, call client.send_otp
\* and suspend in it.
SendOtpInsert ==
    \E phone \in SendPhones, code \in GenCodes :
        /\ is_valid_phone(phone)
        /\ nextRef <= MaxRefs
        /\ has_client
        /\ otps' = insert(otps, nextRef, NewEntry(phone, code))
        /\ nextRef' = nextRef + 1
        /\ pending' = pending \cup {nextRef}
        /\ called' = called \cup {nextRef}
        /\ last' = Call("send_otp_insert", nextRef, "pending", "called")
        /\ UNCHANGED <<config, now, validCount, wrongRun>>
        /\ UNCHANGED otherVars

\* client.send_otp posted the message and the provider answered 2xx.
SendOtpDelivered ==
    \E r \in pending :
        /\ is_enabled
        /\ pending' = pending \ {r}
        /\ last' = Call("send_otp", r, "Ok", "delivered")
        /\ UNCHANGED <<config, otps, now, nextRef, validCount, wrongRun, called>>
        /\ UNCHANGED otherVars

\* client.send_otp posted the message and the request failed (transport
\* error) or the provider answered non-2xx: Err(e) with client.is_enabled().
SendOtpChannelError ==
    \E r \in pending, kind \in {"transport", "status"} :
        /\ is_enabled
        /\ pending' = pending \ {r}
        /\ last' = Call("send_otp", r, "Ok", kind)
        /\ UNCHANGED <<config, otps, now, nextRef, validCount, wrongRun, called>>
        /\ UNCHANGED otherVars

SendOtpRollbackKeepsEntry ==
    \E r \in pending :
        /\ ~is_enabled
        /\ pending' = pending \ {r}
        /\ last' = Call("send_otp", r, "ServiceUnavailable", "unconfigured")
        /\ UNCHANGED <<config, otps, now, nextRef, validCount, wrongRun, called>>
        /\ UNCHANGED otherVars

\* client.send_otp returned Err because the client is not configured:
\* the stored entry is removed and ServiceUnavailable returned.
SendOtpRollback ==
    \E r \in pending :
        /\ ~is_enabled
        /\ pending' = pending \ {r}
        /\ otps' = remove(otps, r)
        /\ last' = Call("send_otp", r, "ServiceUnavailable", "unconfigured")
        /\ UNCHANGED <<config, now, nextRef, validCount, wrongRun, called>>
        /\ UNCHANGED otherVars

\* -------------------------------------------------------------- verify_otp
Outcome(result, store) == [result |-> result, otps |-> store]

\* verify_otp without the comparison of the phones.
verify_otp_no_phone_check(map, reference_id, phone, code) ==
    IF reference_id \notin DOMAIN map THEN Outcome("NotFound", map)
    ELSE LET entry == map[reference_id] IN
        IF is_expired(entry) THEN Outcome("Expired", remove(map, reference_id))
        ELSE IF already_verified(entry) THEN Outcome("AlreadyVerified", map)
        ELSE IF attempts_exhausted(entry)
            THEN Outcome("TooManyRequests", remove(map, reference_id))
        ELSE LET bumped == increment_attempts(entry) IN
            IF entry.code # code
                THEN Outcome("Invalid", [map EXCEPT ![reference_id] = bumped])
            ELSE Outcome("Valid",
                    [map EXCEPT ![reference_id] = [bumped EXCEPT !.verified = TRUE]])

\* verify_otp with the increment moved before the verified check.
verify_otp_bump_first(map, reference_id, phone, code) ==
    IF reference_id \notin DOMAIN map THEN Outcome("NotFound", map)
    ELSE LET entry == map[reference_id]
             bumped == increment_attempts(entry) IN
        IF is_expired(entry) THEN Outcome("Expired", remove(map, reference_id))
        ELSE IF already_verified(entry)
            THEN Outcome("AlreadyVerified", [map EXCEPT ![reference_id] = bumped])
        ELSE IF attempts_exhausted(entry)
            THEN Outcome("TooManyRequests", remove(map, reference_id))
        ELSE IF entry.code # code
            THEN Outcome("Invalid", [map EXCEPT ![reference_id] = bumped])
        ELSE IF normalize_phone(entry.phone) # normalize_phone(phone)
            THEN Outcome("Invalid", [map EXCEPT ![reference_id] = bumped])
        ELSE Outcome("Valid",
                [map EXCEPT ![reference_id] = [bumped EXCEPT !.verified = TRUE]])

\* verify_otp that consumes (removes) the entry it has just verified.
verify_otp_consume(map, reference_id, phone, code) ==
    IF reference_id \notin DOMAIN map THEN Outcome("NotFound", map)
    ELSE LET entry == map[reference_id] IN
        IF is_expired(entry) THEN Outcome("Expired", remove(map, reference_id))
        ELSE IF already_verified(entry) THEN Outcome("AlreadyVerified", map)
        ELSE IF attempts_exhausted(entry)
            THEN Outcome("TooManyRequests", remove(map, reference_id))
        ELSE LET bumped == increment_attempts(entry) IN
            IF entry.code # code
                THEN Outcome("Invalid", [map EXCEPT ![reference_id] = bumped])
            ELSE IF normalize_phone(entry.phone) # normalize_phone(phone)
                THEN Outcome("Invalid", [map EXCEPT ![reference_id] = bumped])
            ELSE Outcome("Valid", remove(map, reference_id))

\* verify_otp with the attempts check moved before the verified check.
verify_otp_attempts_first(map, reference_id, phone, code) ==
    IF reference_id \notin DOMAIN map THEN Outcome("NotFound", map)
    ELSE LET entry == map[reference_id] IN
        IF is_expired(entry) THEN Outcome("Expired", remove(map, reference_id))
        ELSE IF attempts_exhausted(entry)
            THEN Outcome("TooManyRequests", remove(map, reference_id))
        ELSE IF already_verified(entry) THEN Outcome("AlreadyVerified", map)
        ELSE LET bumped == increment_attempts(entry) IN
            IF entry.code # code
                THEN Outcome("Invalid", [map EXCEPT ![reference_id] = bumped])
            ELSE IF normalize_phone(entry.phone) # normalize_phone(phone)
                THEN Outcome("Invalid", [map EXCEPT ![reference_id] = bumped])
            ELSE Outcome("Valid",
                    [map EXCEPT ![reference_id] = [bumped EXCEPT !.verified = TRUE]])

\* verify_otp that rejects the call that would use the last attempt.
verify_otp_strict_limit(map, reference_id, phone, code) ==
    IF reference_id \notin DOMAIN map THEN Outcome("NotFound", map)
    ELSE LET entry == map[reference_id] IN
        IF is_expired(entry) THEN Outcome("Expired", remove(map, reference_id))
        ELSE IF already_verified(entry) THEN Outcome("AlreadyVerified", map)
        ELSE IF entry.attempts + 1 >= config.max_attempts
            THEN Outcome("TooManyRequests", remove(map, reference_id))
        ELSE LET bumped == increment_attempts(entry) IN
            IF entry.code # code
                THEN Outcome("Invalid", [map EXCEPT ![reference_id] = bumped])
            ELSE IF normalize_phone(entry.phone) # normalize_phone(phone)
                THEN Outcome("Invalid", [map EXCEPT ![reference_id] = bumped])
            ELSE Outcome("Valid",
                    [map EXCEPT ![reference_id] = [bumped EXCEPT !.verified = TRUE]])

\* OtpService::verify_otp on the store `map`, the whole call under the write
\* lock: its result and the store it leaves.  "Valid" is Ok(true), "Invalid"
\* is Ok(false), the other results are the Err variants.
verify_otp(map, reference_id, phone, code) ==
    IF reference_id \notin DOMAIN map THEN Outcome("NotFound", map)
    ELSE LET entry == map[reference_id] IN
        IF is_expired(entry) THEN Outcome("Expired", remove(map, reference_id))
        ELSE IF already_verified(entry) THEN Outcome("AlreadyVerified", map)
        ELSE IF attempts_exhausted(entry)
            THEN Outcome("TooManyRequests", remove(map, reference_id))
        ELSE LET bumped == increment_attempts(entry) IN
            IF entry.code # code
                THEN Outcome("Invalid", [map EXCEPT ![reference_id] = bumped])
            ELSE IF normalize_phone(entry.phone) # normalize_phone(phone)
                THEN Outcome("Invalid", [map EXCEPT ![reference_id] = bumped])
            ELSE Outcome("Valid",
                    [map EXCEPT ![reference_id] = [bumped EXCEPT !.verified = TRUE]])

\* The history of wrong-code calls on r after one more call with `code`.
NextWrongRun(r, code) ==
    IF r \notin DOMAIN otps \/ wrongRun[r] = -1 THEN wrongRun[r]
    ELSE IF otps[r].code = code THEN -1
    ELSE IF wrongRun[r] <= config.max_attempts THEN wrongRun[r] + 1
    ELSE wrongRun[r]

VerifyOtp ==
    \E r \in Refs, phone \in Phones, code \in Codes :
        LET out == verify_otp(otps, r, phone, code) IN
        /\ otps' = out.otps
        /\ last' = Call("verify_otp", r, out.result, "none")
        /\ validCount' = IF out.result = "Valid"
                            THEN [validCount EXCEPT ![r] = IF @ < 2 THEN @ + 1 ELSE @]
                            ELSE validCount
        /\ wrongRun' = [wrongRun EXCEPT ![r] = NextWrongRun(r, code)]
        /\ UNCHANGED <<config, now, nextRef, pending, called>>
        /\ UNCHANGED otherVars

\* --------------------------------------------------------- cleanup_expired
\* cleanup_expired that skips the entries already verified.
cleanup_expired_unverified(map) ==
    LET expired_keys == {key \in DOMAIN map :
                            is_expired(map[key]) /\ ~map[key].verified} IN
    [k \in DOMAIN map \ expired_keys |-> map[k]]

\* cleanup_expired that also removes the entries whose age equals the TTL.
cleanup_expired_inclusive(map) ==
    LET expired_keys == {key \in DOMAIN map : is_expired_inclusive(map[key])} IN
    [k \in DOMAIN map \ expired_keys |-> map[k]]

\* OtpService::cleanup_expired on the store `map`.
cleanup_expired(map) ==
    LET expired_keys == {key \in DOMAIN map : is_expired(map[key])} IN
    [k \in DOMAIN map \ expired_keys |-> map[k]]

CleanupExpired ==
    /\ otps' = cleanup_expired(otps)
    /\ last' = Call("cleanup_expired", NoRef, "Ok", "none")
    /\ UNCHANGED <<config, now, nextRef, pending, validCount, wrongRun, called>>
    /\ UNCHANGED otherVars

\* ------------------------------------------------------------------- clock
Tick ==
    /\ now < MaxTime
    /\ now' = now + 1
    /\ last' = Call("tick", NoRef, "Ok", "none")
    /\ UNCHANGED <<config, otps, nextRef, pending, validCount, wrongRun, called>>
    /\ UNCHANGED otherVars

Next ==
    \/ SendOtpInvalidPhone
    \/ SendOtpNoClient
    \/ SendOtpInsert
    \/ SendOtpDelivered
    \/ SendOtpChannelError
    \/ SendOtpRollback
    \/ VerifyOtp
    \/ CleanupExpired
    \/ Tick

Spec == Init /\ [][Next]_vars

\* ================================================================== claims
\* The conditions of the claims, written out from the store's fields.
Age(r) == now - otps[r].created_at

Unexpired(r) == Age(r) <= config.otp_expiry_seconds

AllProviderSettings ==
    /\ config.api_url = Set
    /\ config.api_token = Set
    /\ config.phone_number_id = Set

Without(map, r) == [k \in DOMAIN map \ {r} |-> map[k]]

\* ---------------------------------------------------------------------- C1
\* C1: for every reference id, over every interleaving of verify_otp,
\* cleanup_expired and send_otp steps, at most one verify_otp call returns
\* Valid (Ok(true)).
C1_AtMostOneValid ==
    \A r \in Refs : validCount[r] <= 1

\* A second verify_otp call is made on a reference id that has returned Valid,
\* while the send_otp that created it is still suspended in the channel.
C1_Witness ==
    \E r \in Refs :
        /\ validCount[r] = 1
        /\ r \in pending
        /\ last.op = "verify_otp"
        /\ last.ref = r
        /\ last.result = "AlreadyVerified"

\* ---------------------------------------------------------------------- C2
\* C2 as claimed: with max_attempts = N, counting the wrong-code calls that
\* find the unexpired entry, calls 1..N-1 return false, call N returns
\* TooManyRequests and removes the entry, and a call on an absent reference
\* id returns NotFound.
C2_NthWrongCallRejected ==
    [][\A r \in Refs :
        /\ (r \in DOMAIN otps /\ Unexpired(r) /\ wrongRun'[r] = wrongRun[r] + 1) =>
            IF wrongRun'[r] < config.max_attempts
                THEN last'.result = "Invalid" /\ r \in DOMAIN otps'
                ELSE last'.result = "TooManyRequests" /\ r \notin DOMAIN otps'
        /\ (r \notin DOMAIN otps /\ last'.op = "verify_otp" /\ last'.ref = r) =>
            last'.result = "NotFound"
      ]_vars

\* C2 amended: with max_attempts = N, wrong-code calls 1..N on an unexpired
\* entry each return false and keep the entry, call N+1 returns
\* TooManyRequests and removes the entry in that call; a removed reference id
\* stays absent and every later call on it returns NotFound.
C2_RejectedAfterNWrongCalls ==
    [][\A r \in Refs :
        /\ (r \in DOMAIN otps /\ Unexpired(r) /\ wrongRun'[r] = wrongRun[r] + 1) =>
            IF wrongRun'[r] <= config.max_attempts
                THEN last'.result = "Invalid" /\ r \in DOMAIN otps'
                ELSE last'.result = "TooManyRequests" /\ r \notin DOMAIN otps'
        /\ (r \notin DOMAIN otps /\ last'.op = "verify_otp" /\ last'.ref = r) =>
            (last'.result = "NotFound" /\ otps' = otps)
        /\ (r \notin DOMAIN otps /\ r < nextRef) => r \notin DOMAIN otps'
      ]_vars

\* Call N+1 of a run of wrong-code calls has returned TooManyRequests, N >= 2.
C2_Witness ==
    /\ last.op = "verify_otp"
    /\ last.result = "TooManyRequests"
    /\ config.max_attempts >= 2
    /\ wrongRun[last.ref] = config.max_attempts + 1
    /\ last.ref \notin DOMAIN otps

\* ---------------------------------------------------------------------- C3
\* C3: every stored entry has 0 <= attempts <= max_attempts in every
\* reachable state.
C3_AttemptsBounded ==
    \A r \in DOMAIN otps :
        /\ otps[r].attempts >= 0
        /\ otps[r].attempts <= config.max_attempts

\* An entry whose attempts have reached the bound is in the store after a
\* verify_otp call on it.
C3_Witness ==
    /\ last.op = "verify_otp"
    /\ last.ref \in DOMAIN otps
    /\ otps[last.ref].attempts = config.max_attempts
    /\ last.result = "Invalid"

\* ---------------------------------------------------------------------- C4
\* C4 as claimed: when the channel is enabled and the send fails (transport
\* error or non-2xx answer), send_otp returns ServiceUnavailable and its
\* entry is absent from the store.
C4_FailedSendRolledBack ==
    (last.op = "send_otp" /\ last.channel \in {"transport", "status"}) =>
        (last.result = "ServiceUnavailable" /\ last.ref \notin DOMAIN otps)

\* C4 amended: when client.send_otp fails, send_otp returns ServiceUnavailable
\* and removes its entry only if the client is not fully configured (toggle
\* on, a provider setting missing); when the channel is enabled and the send
\* fails by a transport error or a non-2xx answer, send_otp returns success
\* and leaves the store as it is.
C4_RollbackOnlyWhenUnconfigured ==
    [][(last'.op = "send_otp" /\ last'.channel \notin {"none", "delivered"}) =>
        IF config.enabled /\ AllProviderSettings
            THEN /\ last'.channel \in {"transport", "status"}
                 /\ last'.result = "Ok"
                 /\ otps' = otps
            ELSE /\ last'.channel = "unconfigured"
                 /\ last'.result = "ServiceUnavailable"
                 /\ otps' = Without(otps, last'.ref)
      ]_vars

\* send_otp has returned success after a failed send and its entry is stored.
C4_Witness ==
    /\ last.op = "send_otp"
    /\ last.channel \in {"transport", "status"}
    /\ last.result = "Ok"
    /\ last.ref \in DOMAIN otps

\* ---------------------------------------------------------------------- C5
\* C5 as claimed: whenever enabled() is false (toggle off, or a provider
\* setting missing), send_otp with a valid phone does not call the channel,
\* returns success and leaves the new entry stored fresh.
C5_DisabledNeverSends ==
    (/\ last.op = "send_otp"
     /\ last.ref # NoRef
     /\ ~(config.enabled /\ AllProviderSettings)) =>
        /\ last.ref \notin called
        /\ last.result = "Ok"
        /\ last.ref \in DOMAIN otps
        /\ otps[last.ref].attempts = 0
        /\ ~otps[last.ref].verified

\* C5 amended: whenever the feature toggle is off, send_otp with a valid
\* phone does not call the channel, returns success and leaves the new entry
\* stored with attempts = 0 and verified = false; when the toggle is on and a
\* provider setting is missing, send_otp does call client.send_otp, returns
\* ServiceUnavailable and its entry is absent.
C5_ToggleOffNeverSends ==
    (last.op = "send_otp" /\ last.ref # NoRef) =>
        /\ ~config.enabled =>
            /\ last.ref \notin called
            /\ last.result = "Ok"
            /\ last.ref \in DOMAIN otps
            /\ otps[last.ref].attempts = 0
            /\ ~otps[last.ref].verified
        /\ (config.enabled /\ ~AllProviderSettings) =>
            /\ last.ref \in called
            /\ last.result = "ServiceUnavailable"
            /\ last.ref \notin DOMAIN otps

\* send_otp has returned with the toggle off although every provider setting
\* is present.
C5_Witness ==
    /\ last.op = "send_otp"
    /\ last.ref # NoRef
    /\ ~config.enabled
    /\ AllProviderSettings
    /\ last.ref \in DOMAIN otps

C7_ExpiredStrictlyAfterTtl ==
    \A r \in DOMAIN otps : \A phone \in Phones, code \in Codes :
        LET out == verify_otp(otps, r, phone, code) IN
        /\ Age(r) > config.otp_expiry_seconds =>
            /\ out = Outcome("Expired", Without(otps, r))
            /\ \A p2 \in Phones, c2 \in Codes :
                verify_otp(out.otps, r, p2, c2).result = "NotFound"
        /\ Age(r) = config.otp_expiry_seconds =>
            /\ out.result # "Expired"
            /\ (otps[r].verified \/ otps[r].attempts < config.max_attempts) =>
                r \in DOMAIN out.otps

\* A call has returned Expired and the entry is gone.
C7_Witness ==
    /\ last.op = "verify_otp"
    /\ last.result = "Expired"
    /\ last.ref < nextRef
    /\ last.ref \notin DOMAIN otps

\* ---------------------------------------------------------------------- C8
\* C8: on an unexpired, unverified entry with attempts < max_attempts, a
\* verify_otp call with a code other than the stored one, or with the stored
\* code and a phone whose normalized form differs from the stored phone's,
\* returns false, keeps the entry, adds exactly 1 to attempts and leaves
\* verified = false.
C8_MismatchCountsOneAttempt ==
    \A r \in DOMAIN otps : \A phone \in Phones, code \in Codes :
        (/\ Unexpired(r)
         /\ ~otps[r].verified
         /\ otps[r].attempts < config.max_attempts
         /\ \/ code # otps[r].code
            \/ normalize_phone(phone) # normalize_phone(otps[r].phone)) =>
            verify_otp(otps, r, phone, code) =
                Outcome("Invalid",
                    [otps EXCEPT ![r] = [code |-> otps[r].code,
                                         phone |-> otps[r].phone,
                                         created_at |-> otps[r].created_at,
                                         attempts |-> otps[r].attempts + 1,
                                         verified |-> FALSE]])

\* A call that carried the stored code has returned false: the phone differed.
C8_Witness ==
    /\ last.op = "verify_otp"
    /\ last.result = "Invalid"
    /\ last.ref \in DOMAIN otps
    /\ wrongRun[last.ref] = -1
    /\ otps[last.ref].attempts = 1
    /\ ~otps[last.ref].verified

\* ---------------------------------------------------------------------- C9
\* C9 as claimed: between operations every stored entry satisfies
\* now - created_at <= TTL and attempts < max_attempts.
C9_StoreHoldsOnlyLiveEntries ==
    \A r \in DOMAIN otps :
        /\ Age(r) <= config.otp_expiry_seconds
        /\ otps[r].attempts < config.max_attempts

\* C9 amended: between operations every stored entry satisfies
\* attempts <= max_attempts; an entry with now - created_at > TTL, or an
\* unverified one with attempts = max_attempts, can stay in the store, and is
\* removed by the next verify_otp call on it (an expired entry also by the
\* next cleanup_expired).
C9_DeadEntriesRemovedOnNextUse ==
    \A r \in DOMAIN otps :
        /\ otps[r].attempts <= config.max_attempts
        /\ Age(r) > config.otp_expiry_seconds =>
            /\ r \notin DOMAIN cleanup_expired(otps)
            /\ \A phone \in Phones, code \in Codes :
                r \notin DOMAIN verify_otp(otps, r, phone, code).otps
        /\ (/\ Age(r) <= config.otp_expiry_seconds
            /\ ~otps[r].verified
            /\ otps[r].attempts = config.max_attempts) =>
            /\ r \in DOMAIN cleanup_expired(otps)
            /\ \A phone \in Phones, code \in Codes :
                r \notin DOMAIN verify_otp(otps, r, phone, code).otps

\* After cleanup_expired an unexpired entry is still stored although its
\* attempts have reached max_attempts.
C9_Witness ==
    /\ last.op = "cleanup_expired"
    /\ \E r \in DOMAIN otps :
        /\ ~otps[r].verified
        /\ otps[r].attempts = config.max_attempts

\* --------------------------------------------------------------------- C10
\* C10: an entry is created only by send_otp and as fresh (attempts = 0,
\* verified = false); it becomes verified only in a verify_otp call that
\* returns Valid; verified never returns to false, attempts never decreases;
\* an entry leaves the store only by expiry (verify_otp or cleanup_expired),
\* by the max-attempts limit, or by the rollback of its own failed send.
C10_Lifecycle ==
    [][\A r \in Refs :
        /\ (r \notin DOMAIN otps /\ r \in DOMAIN otps') =>
            /\ last'.op \in {"send_otp", "send_otp_insert"}
            /\ last'.ref = r
            /\ otps'[r].attempts = 0
            /\ ~otps'[r].verified
        /\ (r \in DOMAIN otps /\ r \in DOMAIN otps') =>
            /\ otps[r].verified => otps'[r].verified
            /\ otps'[r].attempts >= otps[r].attempts
            /\ otps'[r] # otps[r] =>
                (last'.op = "verify_otp" /\ last'.ref = r)
            /\ (~otps[r].verified /\ otps'[r].verified) =>
                last'.result = "Valid"
        /\ (last'.op = "verify_otp" /\ last'.ref = r /\ last'.result = "Valid") =>
            (r \in DOMAIN otps' /\ otps'[r].verified)
        /\ (r \in DOMAIN otps /\ r \notin DOMAIN otps') =>
            \/ /\ last'.op = "verify_otp"
               /\ last'.ref = r
               /\ \/ last'.result = "Expired" /\ Age(r) > config.otp_expiry_seconds
                  \/ /\ last'.result = "TooManyRequests"
                     /\ otps[r].attempts >= config.max_attempts
            \/ /\ last'.op = "cleanup_expired"
               /\ Age(r) > config.otp_expiry_seconds
            \/ /\ last'.op = "send_otp"
               /\ last'.ref = r
               /\ last'.result = "ServiceUnavailable"
      ]_vars

\* An entry went through the whole lifecycle (created, verified, removed after
\* its expiry) and cleanup_expired has run.
C10_Witness ==
    /\ last.op = "cleanup_expired"
    /\ \E r \in Refs :
        /\ validCount[r] = 1
        /\ r \notin DOMAIN otps

\* =========================================================== token codec
\* auth/utils.rs (generate_token, validate_token) and auth/middleware.rs
\* (auth_middleware), with the jsonwebtoken calls they make.

\* Largest number of times the system clock is advanced in one behaviour.
MaxClockSteps == 4

\* let expiration = now + 3600
TokenTtl == 3600
\* Validation::default(): leeway of 60 seconds on exp
Leeway == 60

UserIds == {"u1", "u2"}
UserRole == {"Kitchen", "Supplier", "School", "Admin"}
Secrets == {"secret_a", "secret_b"}

\* #[derive(Serialize, Deserialize)] on UserRole: a variant is written as the
\* JSON string of its name, and read back from it.
role_to_json(role) ==
    CASE role = "Kitchen" -> "\"Kitchen\""
      [] role = "Supplier" -> "\"Supplier\""
      [] role = "School" -> "\"School\""
      [] role = "Admin" -> "\"Admin\""

role_from_json(text) ==
    CASE text = "\"Kitchen\"" -> "Kitchen"
      [] text = "\"Supplier\"" -> "Supplier"
      [] text = "\"School\"" -> "School"
      [] text = "\"Admin\"" -> "Admin"
      [] OTHER -> ""

\* Claims written as a JSON object (serde): json says whether the bytes are a
\* JSON object with the four fields at all.
serialize(claims) ==
    [json |-> TRUE, sub |-> claims.sub, role |-> role_to_json(claims.role),
     exp |-> claims.exp, iat |-> claims.iat]

can_deserialize(object) ==
    /\ object.json
    /\ object.sub \in UserIds
    /\ role_from_json(object.role) \in UserRole
    /\ object.exp >= 0
    /\ object.iat >= 0

deserialize(object) ==
    Claims(object.sub, role_from_json(object.role), object.exp, object.iat)

\* One base64url segment of a token: the bytes it encodes, and the unused low
\* bits of its last character, which an encoder writes as 0.
Segment(data) == [data |-> data, tail |-> 0]

\* The HS256 MAC of "header.payload" under a key, as a term: two MACs are
\* equal only for the same key and the same message characters.
sign(header, payload, secret) ==
    Segment([key |-> secret, header |-> header, payload |-> payload, flip |-> 0])

Algorithms == {"HS256", "HS384"}

generate_token_short_lived(user_id, role, secret) ==
    LET issued_at == clock
        expiration == issued_at + Leeway
        claims == Claims(user_id, role, expiration, issued_at)
        header == Segment("HS256")
        payload == Segment(serialize(claims))
    IN <<header, payload, sign(header, payload, secret)>>

\* generate_token: Header::default() is HS256.
generate_token(user_id, role, secret) ==
    LET issued_at == clock
        expiration == issued_at + TokenTtl
        claims == Claims(user_id, role, expiration, issued_at)
        header == Segment("HS256")
        payload == Segment(serialize(claims))
    IN <<header, payload, sign(header, payload, secret)>>

Decoded(kind, claims) == [kind |-> kind, claims |-> claims]

\* jsonwebtoken::decode with Validation::default(): three segments, a header
\* naming HS256, the signature equal to the MAC of the first two segments as
\* they were received, a payload that reads as Claims, and exp not more than
\* the leeway behind the clock.
decode(token, secret) ==
    IF Len(token) # 3 THEN Decoded("InvalidToken", NoClaims)
    ELSE LET header == token[1]
             payload == token[2]
             signature == token[3] IN
        IF header.tail # 0 \/ header.data \notin Algorithms
            THEN Decoded("Base64", NoClaims)
        ELSE IF header.data # "HS256" THEN Decoded("InvalidAlgorithm", NoClaims)
        ELSE IF signature # sign(header, payload, secret)
            THEN Decoded("InvalidSignature", NoClaims)
        ELSE IF payload.tail # 0 \/ ~can_deserialize(payload.data)
            THEN Decoded("Json", NoClaims)
        ELSE IF payload.data.exp < clock - Leeway
            THEN Decoded("ExpiredSignature", NoClaims)
        ELSE Decoded("Ok", deserialize(payload.data))

\* validate_token: every error of decode becomes Unauthorized("Invalid token").
validate_token(token, secret) ==
    LET token_data == decode(token, secret) IN
    IF token_data.kind = "Ok"
        THEN Ok(token_data.claims)
        ELSE Unauthorized("Invalid token")

\* ------------------------------------------------------- tokens presented
\* The tokens that differ from `token` in one character: of the header, of
\* the payload, of the signature, or in a separating dot.
Flips(token) ==
    LET header == token[1]
        payload == token[2]
        signature == token[3]
        object == payload.data
        with(data) == <<header, [payload EXCEPT !.data = data], signature>> IN
    {<<[header EXCEPT !.data = "HS384"], payload, signature>>,
     <<[header EXCEPT !.data = "garbage"], payload, signature>>,
     <<[header EXCEPT !.tail = 1], payload, signature>>,
     with([object EXCEPT !.exp = @ + 1]),
     with([object EXCEPT !.exp = @ + TokenTtl]),
     with([object EXCEPT !.iat = @ + 1]),
     with([object EXCEPT !.role = "\"Root\""]),
     with([object EXCEPT !.json = FALSE]),
     <<header, [payload EXCEPT !.tail = 1], signature>>,
     <<header, payload, [signature EXCEPT !.data.flip = 1]>>,
     <<header, payload, [signature EXCEPT !.tail = 1]>>,
     <<[header EXCEPT !.data = "garbage"], signature>>}
    \cup {with([object EXCEPT !.role = role_to_json(r)]) :
            r \in UserRole \ {role_from_json(object.role)}}
    \cup {with([object EXCEPT !.sub = u]) : u \in UserIds \ {object.sub}}

\* "", "invalid" and "not.a.valid.token".
Malformed ==
    {<<>>,
     <<Segment("garbage")>>,
     <<Segment("garbage"), Segment("garbage"), Segment("garbage"), Segment("garbage")>>}

\* Tokens issued now under a secret other than the configured one.
ForeignInputs == {<<"u1", "Admin">>, <<"u2", "Kitchen">>}

Foreign ==
    {generate_token(i[1], i[2], other) :
        i \in ForeignInputs, other \in Secrets \ {jwt_secret}}

TokenKinds == {"issued", "tampered", "malformed", "foreign"}

TokensOfKind(kind) ==
    CASE kind = "issued" -> {b.token : b \in bearer}
      [] kind = "tampered" -> UNION {Flips(b.token) : b \in bearer}
      [] kind = "malformed" -> Malformed
      [] kind = "foreign" -> Foreign

\* --------------------------------------------------------- auth_middleware
\* An Authorization header: whether the request has one, whether to_str()
\* reads it (it holds visible ASCII only, as every token does), its first
\* seven characters and the characters after them.
Header(present, readable, prefix, rest) ==
    [present |-> present, readable |-> readable, prefix |-> prefix, rest |-> rest]

NoHeader == Header(FALSE, FALSE, "", <<>>)

Prefixes == {"Bearer ", "bearer ", "Basic  "}

HeadersOfKind(kind) ==
    {Header(TRUE, TRUE, prefix, token) :
        prefix \in Prefixes, token \in TokensOfKind(kind)}
    \cup {NoHeader, Header(TRUE, FALSE, "Bearer ", <<>>),
          Header(TRUE, TRUE, "Bearer", <<>>)}

\* What auth_middleware did with a request: the status it answered itself
\* ("next": the answer is the one of next.run), whether it ran next, and the
\* claims it inserted into the request extensions.
Guarded(status, invoked, extensions) ==
    [status |-> status, invoked |-> invoked, extensions |-> extensions]

auth_middleware_any_scheme(header) ==
    IF ~header.present \/ ~header.readable
        THEN Guarded("401", FALSE, NoClaims)
    ELSE LET validated == validate_token(header.rest, jwt_secret) IN
        IF validated.tag = "Ok"
            THEN Guarded("next", TRUE, validated.claims)
            ELSE Guarded("401", FALSE, NoClaims)

auth_middleware(header) ==
    IF ~header.present \/ ~header.readable
        THEN Guarded("401", FALSE, NoClaims)
    ELSE IF header.prefix # "Bearer "
        THEN Guarded("401", FALSE, NoClaims)
    ELSE LET validated == validate_token(header.rest, jwt_secret) IN
        IF validated.tag = "Ok"
            THEN Guarded("next", TRUE, validated.claims)
            ELSE Guarded("401", FALSE, NoClaims)

\* ------------------------------------------------------------ token steps
\* The OTP service at rest.
OtpOff ==
    /\ config = [enabled |-> FALSE, api_url |-> None, api_token |-> None,
                 phone_number_id |-> None,
                 otp_expiry_seconds |-> MaxExpiryCfg,
                 max_attempts |-> MaxAttemptsCfg]
    /\ otps = <<>>
    /\ now = 0
    /\ nextRef = 1
    /\ pending = {}
    /\ last = Call("new", NoRef, "Ok", "none")
    /\ validCount = [r \in Refs |-> 0]
    /\ wrongRun = [r \in Refs |-> 0]
    /\ called = {}

InitToken ==
    /\ OtpOff
    /\ AuthOff
    /\ LimitOff
    /\ clock = Leeway
    /\ clockSteps = 0
    /\ jwt_secret \in Secrets
    /\ bearer = {}
    /\ tlast = TokenCall("new", "none", Ok(NoClaims), "none", FALSE)

\* generate_token, as register_user and login_user call it.
GenerateToken ==
    \E user_id \in UserIds, role \in UserRole :
        /\ bearer' = {[token |-> generate_token(user_id, role, jwt_secret),
                       user_id |-> user_id, role |-> role, at |-> clock]}
        /\ tlast' = TokenCall("generate_token", "issued", Ok(NoClaims), "none", FALSE)
        /\ UNCHANGED <<clock, clockSteps, jwt_secret>>
        /\ UNCHANGED <<otpVars, authVars, limVars>>

ValidateToken ==
    \E kind \in TokenKinds : \E token \in TokensOfKind(kind) :
        /\ tlast' = TokenCall("validate_token", kind,
                              validate_token(token, jwt_secret), "none", FALSE)
        /\ UNCHANGED <<clock, clockSteps, jwt_secret, bearer>>
        /\ UNCHANGED <<otpVars, authVars, limVars>>

AuthMiddleware ==
    \E kind \in TokenKinds : \E header \in HeadersOfKind(kind) :
        LET out == auth_middleware(header) IN
        /\ tlast' = TokenCall("auth_middleware",
                              IF header.present /\ header.readable
                                    /\ header.prefix = "Bearer "
                                  THEN kind ELSE "none",
                              IF out.invoked THEN Ok(out.extensions)
                                  ELSE Unauthorized(""),
                              out.status, out.invoked)
        /\ UNCHANGED <<clock, clockSteps, jwt_secret, bearer>>
        /\ UNCHANGED <<otpVars, authVars, limVars>>

\* The system clock moves on between two calls.
ClockSteps == {1, Leeway, TokenTtl - 1}

AdvanceClock ==
    \E d \in ClockSteps :
        /\ clockSteps < MaxClockSteps
        /\ clock' = clock + d
        /\ clockSteps' = clockSteps + 1
        /\ tlast' = TokenCall("clock", "none", Ok(NoClaims), "none", FALSE)
        /\ UNCHANGED <<jwt_secret, bearer>>
        /\ UNCHANGED <<otpVars, authVars, limVars>>

NextToken ==
    \/ GenerateToken
    \/ ValidateToken
    \/ AuthMiddleware
    \/ AdvanceClock

SpecToken == InitToken /\ [][NextToken]_vars

\* The expiry the claims of an issued token carry.
ExpOf(b) == b.at + TokenTtl

\* --------------------------------------------------------------------- C11
\* C11: validate_token on a token signed with the configured secret returns
\* its claims if and only if now < exp; at every time now >= exp it returns
\* Unauthorized.
C11_ValidIffBeforeExp ==
    (tlast.op = "validate_token" /\ tlast.kind = "issued") =>
        \A b \in bearer :
            IF clock < ExpOf(b)
                THEN tlast.result = Ok(Claims(b.user_id, b.role, ExpOf(b), b.at))
                ELSE tlast.result = Unauthorized("Invalid token")

\* --------------------------------------------------------------------- C12
\* C12: validate_token fails for every token that is malformed, signed with
\* another secret, or one character away from an issued token; in each of
\* these cases, and for an issued token at a time now >= exp, the result is
\* the one value Unauthorized("Invalid token").
C12_EveryFailureIsInvalidToken ==
    /\ \A kind \in {"malformed", "foreign", "tampered"} :
        \A token \in TokensOfKind(kind) :
            validate_token(token, jwt_secret) = Unauthorized("Invalid token")
    /\ \A b \in bearer :
        clock >= ExpOf(b) =>
            validate_token(b.token, jwt_secret) = Unauthorized("Invalid token")

\* --------------------------------------------------------------------- C13
\* C13: for every user_id, role and secret, validate_token on the token
\* generate_token returned, under the same secret and before the expiry,
\* returns claims with sub = user_id, role = role and exp = iat + 3600.
C13_RoundTrip ==
    /\ \A b \in bearer :
        clock < ExpOf(b) =>
            LET validated == validate_token(b.token, jwt_secret) IN
            /\ validated.tag = "Ok"
            /\ validated.claims.sub = b.user_id
            /\ validated.claims.role = b.role
            /\ validated.claims.iat = b.at
            /\ validated.claims.exp = validated.claims.iat + 3600
    /\ (tlast.op = "validate_token" /\ tlast.kind = "issued") =>
        \A b \in bearer :
            clock < ExpOf(b) => tlast.result.tag = "Ok"

\* An issued token has been validated one second before its expiry.
C13_Witness ==
    /\ tlast.op = "validate_token"
    /\ tlast.kind = "issued"
    /\ tlast.result.tag = "Ok"
    /\ \E b \in bearer :
        /\ clock = ExpOf(b) - 1
        /\ tlast.result.claims.sub = b.user_id

\* --------------------------------------------------------------------- C14
\* C14: auth_middleware runs the downstream handler if and only if the
\* Authorization header is present, starts with "Bearer " and validate_token
\* of the remainder succeeds; in every other case it answers 401 and the
\* handler is not run; on success the claims inserted into the request are
\* the value validate_token returned.
C14_HandlerOnlyAfterDecode ==
    \A kind \in TokenKinds : \A header \in HeadersOfKind(kind) :
        LET out == auth_middleware(header)
            decoded == validate_token(header.rest, jwt_secret)
            accepted == /\ header.present
                        /\ header.prefix = "Bearer "
                        /\ decoded.tag = "Ok" IN
        /\ out.invoked <=> accepted
        /\ ~accepted => (out.status = "401" /\ ~out.invoked)
        /\ accepted => (out.extensions = decoded.claims /\ out.status = "next")

\* auth_middleware has run the handler with the claims of an issued token.
C14_Witness ==
    /\ tlast.op = "auth_middleware"
    /\ tlast.invoked
    /\ tlast.kind = "issued"
    /\ \E b \in bearer :
        tlast.result = Ok(Claims(b.user_id, b.role, ExpOf(b), b.at))

\* ========================================================== auth service
\* routes/auth.rs (register_handler, login_handler), service/auth.rs
\* (register_user, login_user) and the users table of database/table.rs.

\* Number of rows the users table may generate an id for in one behaviour.
MaxUsers == 2
\* Number of register calls that may be suspended at the same time.
MaxCalls == 2

\* A string of n ASCII characters.
Str(n) == [i \in 1..n |-> "x"]

Whitespace == {" ", "\t", "\n"}

RECURSIVE trim_start(_)
trim_start(s) ==
    IF s # <<>> /\ Head(s) \in Whitespace THEN trim_start(Tail(s)) ELSE s

RECURSIVE trim_end(_)
trim_end(s) ==
    IF s # <<>> /\ s[Len(s)] \in Whitespace
        THEN trim_end(SubSeq(s, 1, Len(s) - 1))
        ELSE s

\* str::trim
trim(s) == trim_end(trim_start(s))

\* An Argon2 hash string: its salt and the password its digest was derived
\* from; present = FALSE is a password_hash column that is NULL, wellformed
\* = FALSE a string PasswordHash::new does not parse.
PasswordHash(salt, password) ==
    [present |-> TRUE, wellformed |-> TRUE, salt |-> salt, digest_of |-> password]

NoHash == [present |-> FALSE, wellformed |-> FALSE, salt |-> "", digest_of |-> <<>>]

\* A stored string that is no PHC hash, left of a hash of the password
\* "xxxxxxxx".
MalformedHash ==
    [present |-> TRUE, wellformed |-> FALSE, salt |-> "salt1",
     digest_of |-> [i \in 1..8 |-> "x"]]

\* "Dummy hash for \"password\"".
DummyPassword == <<"p","a","s","s","w","o","r","d">>

\* The fixed hash login_user verifies against when no user was found, taken
\* as its comment describes it: a hash the password "password" verifies
\* against.
DummyHash == PasswordHash("saltsalt", DummyPassword)

Salts == {"salt1", "salt2"}

hash_password(password, salt) == PasswordHash(salt, password)

\* The Result of verify_password, and the number of Argon2 computations
\* made for it.
Verified(tag, valid, kdf) == [tag |-> tag, valid |-> valid, kdf |-> kdf]

\* verify_password that skips the parse of the stored string.
verify_password_unparsed(password, password_hash) ==
    Verified("Ok", password_hash.digest_of = password, 1)

\* verify_password: PasswordHash::new(hash) or Err, then
\* Ok(Argon2::default().verify_password(..).is_ok()).
verify_password(password, password_hash) ==
    IF ~password_hash.wellformed
        THEN Verified("Err", FALSE, 0)
        ELSE Verified("Ok", password_hash.digest_of = password, 1)

\* A row of the users table.
User(id, name, role, unique_code, password_hash, phone, institution_name) ==
    [id |-> id, name |-> name, role |-> role, unique_code |-> unique_code,
     password_hash |-> password_hash, phone |-> phone,
     institution_name |-> institution_name]

\* A user whose password_hash is NULL.
SeedUser == User(0, <<"S">>, "Admin", <<"S","E","E","D">>, NoHash, <<>>, <<>>)

\* A user whose password_hash is not a PHC string.
BrokenUser == User(-1, <<"B">>, "Admin", <<"B","A","D">>, MalformedHash, <<>>, <<>>)

\* -------------------------------------------------------------- payloads
K1 == <<"K","1">>
K1_padded == <<" ","K","1"," ">>
K2 == <<"K","2">>
Al_padded == <<"\t","A","l"," ">>
\* None, and a phone longer than the VARCHAR(20) column.
NoPhone == <<>>
LongPhone == Str(21)
\* None, and an institution name longer than the VARCHAR(255) column.
NoInstitution == <<>>
LongInstitution == Str(256)

Payload(name, role, unique_code, password, phone, institution_name) ==
    [name |-> name, role |-> role, unique_code |-> unique_code,
     password |-> password, phone |-> phone,
     institution_name |-> institution_name]

\* The register requests the claims are evaluated on: every combination of
\* name, unique_code and password around the validation bounds, and every
\* combination of unique_code, phone and institution_name around the column
\* limits.
RegisterPayloads ==
    {Payload(name, "Kitchen", unique_code, password, NoPhone, NoInstitution) :
        name \in {Al_padded, <<>>, <<" "," ">>, Str(255), Str(256)},
        unique_code \in {K1_padded, <<>>, <<" ">>, Str(50), Str(51)},
        password \in {Str(7), Str(8), Str(32), Str(33)}}
    \cup
    {Payload(Al_padded, "Kitchen", unique_code, Str(8), phone, institution_name) :
        unique_code \in {K1, K1_padded, K2, <<" ">>, Str(51)},
        phone \in {NoPhone, LongPhone},
        institution_name \in {NoInstitution, LongInstitution}}

\* The register requests clients send: valid ones for two codes, one of
\* them also padded, and one request failing each kind of check.
SentPayloads ==
    {Payload(Al_padded, role, unique_code, password, NoPhone, NoInstitution) :
        role \in {"Kitchen", "School"},
        unique_code \in {K1, K1_padded, K2},
        password \in {Str(8), Str(32)}}
    \cup
    {Payload(<<" "," ">>, "Kitchen", K1, Str(8), NoPhone, NoInstitution),
     Payload(Al_padded, "Kitchen", K1, Str(7), NoPhone, NoInstitution),
     Payload(Al_padded, "Kitchen", K1_padded, Str(8), LongPhone, NoInstitution)}

LoginCodes ==
    {K1, K1_padded, K2, SeedUser.unique_code, BrokenUser.unique_code, <<"N","O">>}

LoginPasswords == {Str(8), Str(32), Str(9), Str(33), DummyPassword}

\* --------------------------------------------------------------- register
BadRequest(msg) == Reply("BadRequest", msg, 0)

InternalServerError(msg) == Reply("InternalServerError", msg, 0)

Valid == Reply("Valid", "", 0)

sanitize_untrimmed(payload) == payload

\* register_handler, "Sanitize Input".
sanitize(payload) ==
    [payload EXCEPT !.name = trim(@), !.unique_code = trim(@)]

\* register_handler, "Input Validation", on the sanitized payload.
validate(payload) ==
    IF Len(payload.password) < 8
        THEN BadRequest("Password must be at least 8 characters long")
    ELSE IF Len(payload.password) > 32
        THEN BadRequest("Password must be less than 32 characters long")
    ELSE IF payload.unique_code = <<>> \/ Len(payload.unique_code) > 50
        THEN BadRequest("Unique code must be between 1 and 50 characters")
    ELSE IF payload.name = <<>> \/ Len(payload.name) > 255
        THEN BadRequest("Name must be between 1 and 255 characters")
    ELSE Valid

Inserted(error, table, id) == [error |-> error, users |-> table, id |-> id]

user_table_insert_unconstrained(table, user) ==
    IF Len(user.phone) > 20
        THEN Inserted("value too long for type character varying(20)", table, 0)
    ELSE IF Len(user.institution_name) > 255
        THEN Inserted("value too long for type character varying(255)", table, 0)
    ELSE Inserted("", table \cup {[user EXCEPT !.id = nextUserId]}, nextUserId)

\* user_table.insert: one INSERT .. RETURNING id statement on the table
\* with phone VARCHAR(20), institution_name VARCHAR(255) and unique_code
\* VARCHAR(50) UNIQUE NOT NULL.
user_table_insert(table, user) ==
    IF Len(user.phone) > 20
        THEN Inserted("value too long for type character varying(20)", table, 0)
    ELSE IF Len(user.institution_name) > 255
        THEN Inserted("value too long for type character varying(255)", table, 0)
    ELSE IF \E u \in table : u.unique_code = user.unique_code
        THEN Inserted("duplicate key value violates unique constraint", table, 0)
    ELSE Inserted("", table \cup {[user EXCEPT !.id = nextUserId]}, nextUserId)

\* e.to_string().contains("duplicate key")
is_duplicate_key(error) ==
    error = "duplicate key value violates unique constraint"

\* register_handler up to the end of the insert of register_user: the reply
\* when the call ends there ("Pending": it goes on to the select), and the
\* table it leaves.
Registering(reply, table, id) == [reply |-> reply, users |-> table, id |-> id]

register_insert(table, payload, salt) ==
    LET clean == sanitize(payload)
        checked == validate(clean) IN
    IF checked # Valid THEN Registering(checked, table, 0)
    ELSE LET user == User(0, clean.name, clean.role, clean.unique_code,
                          hash_password(clean.password, salt), clean.phone,
                          clean.institution_name)
             done == user_table_insert(table, user) IN
        IF done.error = "" THEN Registering(Reply("Pending", "", done.id), done.users, done.id)
        ELSE IF is_duplicate_key(done.error)
            THEN Registering(BadRequest("User with this unique code already exists"),
                             table, 0)
        ELSE Registering(InternalServerError("An unexpected error occurred"), table, 0)

\* register_user from the select to its return: the row the table generated
\* is read back, and the token generated for its id and role.
register_finish(table, user_id) ==
    LET created == {u \in table : u.id = user_id} IN
    IF created = {}
        THEN InternalServerError("User not found after creation")
        ELSE Granted("Created", CHOOSE u \in created : TRUE)

\* ------------------------------------------------------------------ login
login_user_reporting_not_found(table, unique_code, password) ==
    LET found == {u \in table : u.unique_code = unique_code} IN
    IF found = {} THEN Reply("NotFound", "User not found", 0)
    ELSE LET user == CHOOSE u \in found : TRUE IN
        IF user.password_hash.present
                /\ verify_password(password, user.password_hash).valid
            THEN Granted("Ok", user)
            ELSE Reply("Unauthorized", "Invalid credentials", 0)

\* login_user, "Mitigate User Enumeration": the hash verified against, then
\* password_valid with the number of Argon2 computations it took.
password_check(table, unique_code, password) ==
    LET found == {u \in table : u.unique_code = unique_code}
        stored_hash == IF found # {}
                           THEN (CHOOSE u \in found : TRUE).password_hash
                           ELSE DummyHash IN
    IF stored_hash.present
        THEN LET result == verify_password(password, stored_hash) IN
            IF result.tag = "Ok"
                THEN Verified("Ok", result.valid, result.kdf)
                ELSE Verified("Err", FALSE, result.kdf)
        ELSE Verified("None", FALSE, 0)

\* AuthService::login_user
login_user(table, unique_code, password) ==
    LET found == {u \in table : u.unique_code = unique_code}
        user_found == found # {}
        password_valid == password_check(table, unique_code, password).valid IN
    IF user_found /\ password_valid
        THEN Granted("Ok", CHOOSE u \in found : TRUE)
        ELSE Reply("Unauthorized", "Invalid credentials", 0)

login_handler_untrimmed(table, unique_code, password) ==
    IF Len(password) > 32
        THEN BadRequest("Password too long")
        ELSE login_user(table, unique_code, password)

\* login_handler
login_handler(table, unique_code, password) ==
    IF Len(password) > 32
        THEN BadRequest("Password too long")
        ELSE login_user(table, trim(unique_code), password)

\* ------------------------------------------------------------- auth steps
InitAuth ==
    /\ OtpOff
    /\ TokenOff
    /\ LimitOff
    /\ users \in {{}, {SeedUser, BrokenUser}}
    /\ nextUserId = 1
    /\ inflight = {}
    /\ registered = {}
    /\ alast = AuthCall("new", <<>>, FALSE, Reply("Ok", "", 0))

\* The locals of a register_user call suspended after its insert.
Suspended(user_id, payload) ==
    [user_id |-> user_id, name |-> payload.name, role |-> payload.role,
     unique_code |-> payload.unique_code, password |-> payload.password]

\* register_handler from the request to the end of the insert.
RegisterInsert ==
    \E payload \in SentPayloads, salt \in Salts :
        LET out == register_insert(users, payload, salt)
            clean == sanitize(payload) IN
        /\ nextUserId <= MaxUsers
        /\ Cardinality(inflight) < MaxCalls
        /\ users' = out.users
        /\ IF out.reply.tag = "Pending"
            THEN /\ nextUserId' = nextUserId + 1
                 /\ inflight' = inflight \cup {Suspended(out.id, clean)}
                 /\ alast' = AuthCall("register_insert", clean.unique_code, TRUE,
                                      out.reply)
            ELSE /\ alast' = AuthCall("register", clean.unique_code,
                                      validate(clean) = Valid, out.reply)
                 /\ UNCHANGED <<nextUserId, inflight>>
        /\ UNCHANGED registered
        /\ UNCHANGED <<otpVars, tokVars, limVars>>

\* register_handler from the select to the response.
RegisterFinish ==
    \E call \in inflight :
        LET reply == register_finish(users, call.user_id) IN
        /\ inflight' = inflight \ {call}
        /\ registered' = IF reply.tag = "Created"
                            THEN registered \cup {call}
                            ELSE registered
        /\ alast' = AuthCall("register", call.unique_code, TRUE, reply)
        /\ UNCHANGED <<users, nextUserId>>
        /\ UNCHANGED <<otpVars, tokVars, limVars>>

Login ==
    \E unique_code \in LoginCodes, password \in LoginPasswords :
        /\ alast' = AuthCall("login", trim(unique_code), Len(password) <= 32,
                             login_handler(users, unique_code, password))
        /\ UNCHANGED <<users, nextUserId, inflight, registered>>
        /\ UNCHANGED <<otpVars, tokVars, limVars>>

NextAuth ==
    \/ RegisterInsert
    \/ RegisterFinish
    \/ Login

SpecAuth == InitAuth /\ [][NextAuth]_vars

\* The conditions of the claims on a register payload and on the table.
Duplicate == BadRequest("User with this unique code already exists")

HasCode(table, unique_code) == {u \in table : u.unique_code = unique_code}

WithinBounds(payload) ==
    /\ 8 <= Len(payload.password)
    /\ Len(payload.password) <= 32
    /\ 1 <= Len(trim(payload.unique_code))
    /\ Len(trim(payload.unique_code)) <= 50
    /\ 1 <= Len(trim(payload.name))
    /\ Len(trim(payload.name)) <= 255

\* The forms of a unique_code with whitespace around it.
Padded(unique_code) ==
    {unique_code, <<" ">> \o unique_code, unique_code \o <<" ">>,
     <<"\t"," ">> \o unique_code \o <<" ","\n">>}

ValidationErrors ==
    {BadRequest("Password must be at least 8 characters long"),
     BadRequest("Password must be less than 32 characters long"),
     BadRequest("Unique code must be between 1 and 50 characters"),
     BadRequest("Name must be between 1 and 255 characters")}

C18_ValidationBounds ==
    /\ \A payload \in RegisterPayloads :
        LET out == register_insert(users, payload, "salt1") IN
        /\ WithinBounds(payload) <=> out.reply \notin ValidationErrors
        /\ ~WithinBounds(payload) =>
            /\ out.reply.tag = "BadRequest"
            /\ out.users = users
    /\ (alast.op = "register" /\ ~alast.valid) =>
        alast.reply \in ValidationErrors

\* A register request with a name of whitespace only has been answered, after
\* another one had been stored.
C18_Witness ==
    /\ alast.op = "register"
    /\ ~alast.valid
    /\ alast.reply = BadRequest("Name must be between 1 and 255 characters")
    /\ registered # {}

\* --------------------------------------------------------------------- C19
\* C19 as claimed: after a successful register with unique_code c and
\* password p, a login with any whitespace-padded form of c and password p
\* succeeds with a token, and a login with c and any other password returns
\* Unauthorized("Invalid credentials").
C19_WrongPasswordUnauthorized ==
    \A g \in registered :
        /\ \A unique_code \in Padded(g.unique_code) :
            login_handler(users, unique_code, g.password).tag = "Ok"
        /\ \A password \in LoginPasswords \ {g.password} :
            login_handler(users, g.unique_code, password)
                = Reply("Unauthorized", "Invalid credentials", 0)

\* C19 amended: after a successful register with unique_code c and password
\* p, a login with any whitespace-padded form of c and password p succeeds
\* with a token for the stored user; a login with c and another password of
\* at most 32 bytes returns Unauthorized("Invalid credentials"), and one with
\* a password longer than 32 bytes returns BadRequest("Password too long").
C19_LoginAfterRegister ==
    \A g \in registered :
        /\ \A unique_code \in Padded(g.unique_code) :
            LET reply == login_handler(users, unique_code, g.password) IN
            /\ reply.tag = "Ok"
            /\ reply.user = g.user_id
            /\ reply.token = [sub |-> g.user_id, role |-> g.role]
        /\ \A password \in LoginPasswords \ {g.password} :
            login_handler(users, g.unique_code, password) =
                IF Len(password) <= 32
                    THEN Reply("Unauthorized", "Invalid credentials", 0)
                    ELSE BadRequest("Password too long")

\* A login with the padded code of a registered user has returned Ok.
C19_Witness ==
    /\ alast.op = "login"
    /\ alast.reply.tag = "Ok"
    /\ \E g \in registered :
        /\ g.unique_code = alast.unique_code
        /\ g.user_id = alast.reply.user

\* --------------------------------------------------------------------- C20
\* C20: login calls that fail because no user has the unique_code, because
\* the user has no stored hash, or because the password is wrong, all return
\* the one value Unauthorized("Invalid credentials"); two login calls with
\* the same password get the same response whichever of these makes them
\* fail.
C20_OneFailureReply ==
    \A password \in LoginPasswords :
        /\ \A unique_code \in LoginCodes :
            LET found == HasCode(users, trim(unique_code))
                no_user == found = {}
                no_hash == \E u \in found : ~u.password_hash.present
                wrong == \E u \in found :
                            /\ u.password_hash.present
                            /\ u.password_hash.digest_of # password IN
            (no_user \/ no_hash \/ wrong) =>
                /\ login_user(users, trim(unique_code), password)
                    = Reply("Unauthorized", "Invalid credentials", 0)
                /\ login_handler(users, unique_code, password).tag # "Ok"
        /\ \A c1 \in LoginCodes, c2 \in LoginCodes :
            LET r1 == login_handler(users, c1, password)
                r2 == login_handler(users, c2, password) IN
            (r1.tag # "Ok" /\ r2.tag # "Ok") => r1 = r2

\* A login for a user without a stored hash has failed while the table also
\* holds a registered user.
C20_Witness ==
    /\ alast.op = "login"
    /\ alast.unique_code = SeedUser.unique_code
    /\ alast.reply = Reply("Unauthorized", "Invalid credentials", 0)
    /\ SeedUser \in users
    /\ registered # {}

\* ================================================================ limiter
\* Largest requests_per_second the limiter is built with.
MaxCapacity == 2
\* Last tick of the limiter's clock while its allowance is observed.
MaxTicks == 12
\* Last tick of the limiter's clock while requests are followed through the
\* layers.
MaxPipelineTicks == 2
\* Number of requests that may be in the server at the same time.
MaxCallers == 2

\* Quota::per_second(n): one cell is replenished every 1 s / n. The clock
\* ticks Interval times per replenish interval, so a second is n * Interval
\* ticks (n divides the 10^9 ns of a second, as the configured 100 does).
Interval == 2

Second == capacity * Interval

\* InMemoryState before the first check.
NoTat == -1

Max(a, b) == IF a > b THEN a ELSE b

saturating_sub(a, b) == IF a > b THEN a - b ELSE 0

Checked(allowed, state) == [allowed |-> allowed, tat |-> state]

test_and_update_double_burst(state, t0) ==
    LET t == Interval
        tau == 2 * Interval * capacity
        tat0 == IF state = NoTat THEN t0 + t ELSE state
        earliest_time == saturating_sub(tat0, tau) IN
    IF t0 < earliest_time
        THEN Checked(FALSE, state)
        ELSE Checked(TRUE, Max(tat0, t0) + t)

\* limiter.check(): Gcra::test_and_update of the governor crate on the one
\* state cell of a direct limiter, with t = replenish_1_per,
\* tau = t * max_burst and starting state t0 + t; a rejected check leaves
\* the cell as it was.
test_and_update(state, t0) ==
    LET t == Interval
        tau == Interval * capacity
        tat0 == IF state = NoTat THEN t0 + t ELSE state
        earliest_time == saturating_sub(tat0, tau) IN
    IF t0 < earliest_time
        THEN Checked(FALSE, state)
        ELSE Checked(TRUE, Max(tat0, t0) + t)

\* -------------------------------------------------------- allowance steps
InitWindow ==
    /\ OtpOff
    /\ TokenOff
    /\ AuthOff
    /\ capacity \in 1..MaxCapacity
    /\ rnow = 0
    /\ tat = NoTat
    /\ window = [i \in 1..(capacity * Interval + 1) |-> 0]
    /\ slots = EmptyBag
    /\ rlast = RequestStep("new", "none", "none", FALSE, FALSE, FALSE)

\* limiter.check() by any caller; the check is one atomic update of the
\* state cell, so the checks of concurrent callers happen one after another
\* at the same reading of the clock.
Check ==
    LET check == test_and_update(tat, rnow) IN
    /\ tat' = check.tat
    /\ window' = IF check.allowed
                    THEN [window EXCEPT ![Len(window)] = @ + 1]
                    ELSE window
    /\ rlast' = RequestStep("check", "none",
                            IF check.allowed THEN "next" ELSE "429",
                            TRUE, FALSE, FALSE)
    /\ UNCHANGED <<capacity, rnow, slots>>
    /\ UNCHANGED <<otpVars, tokVars, authVars>>

\* The limiter's clock advances by one tick.
WindowTick ==
    /\ rnow < MaxTicks
    /\ rnow' = rnow + 1
    /\ window' = Tail(window) \o <<0>>
    /\ UNCHANGED <<capacity, tat, slots, rlast>>
    /\ UNCHANGED <<otpVars, tokVars, authVars>>

NextWindow ==
    \/ Check
    \/ WindowTick

SpecWindow == InitWindow /\ [][NextWindow]_vars

\* ----------------------------------------------------------------- layers
\* The routes requests are sent to: two public ones whose handlers write the
\* users table and the OTP store, one behind auth_middleware, and a path no
\* route matches.
Routes == {"/api/auth/register", "/api/auth/otp/send", "/api/upload/image",
           "/unknown"}

layers_guard_outermost(route) ==
    IF route = "/api/upload/image"
        THEN <<"auth_middleware", "rate_limit">>
        ELSE <<"rate_limit">>

\* The middleware a request to a route passes before its handler, outermost
\* first: rate_limit is layered on the whole router, auth_middleware on the
\* protected routes inside it.
layers(route) ==
    IF route = "/api/upload/image"
        THEN <<"rate_limit", "auth_middleware">>
        ELSE <<"rate_limit">>

\* A request in the server: the layer it is about to enter (past the last
\* one: its handler), and which middleware has run for it.
Req(route, authorized, pos, checked, guarded) ==
    [route |-> route, authorized |-> authorized, pos |-> pos,
     checked |-> checked, guarded |-> guarded]

\* The Authorization header of a request: a token issued for an admin, or
\* none.
HeaderOf(request) ==
    IF request.authorized
        THEN Header(TRUE, TRUE, "Bearer ", generate_token("u1", "Admin", jwt_secret))
        ELSE NoHeader

AtLayer(request, layer) ==
    /\ request.pos <= Len(layers(request.route))
    /\ layers(request.route)[request.pos] = layer

AtHandler(request) == request.pos = Len(layers(request.route)) + 1

Advance(request, layer) ==
    [request EXCEPT !.pos = @ + 1,
                    !.checked = @ \/ layer = "rate_limit",
                    !.guarded = @ \/ layer = "auth_middleware"]

\* The number of requests to a route that are in the server.
InServer(route) ==
    LET same == {s \in BagToSet(slots) : s.route = route} IN
    BagCardinality([s \in same |-> slots[s]])

Leave(request) == slots (-) SetToBag({request})

\* The body register_handler is sent here.
PipelinePayload ==
    Payload(Al_padded, "Kitchen", K1, Str(8), NoPhone, NoInstitution)

InitLimit ==
    /\ OtpOff
    /\ TokenOff
    /\ AuthOff
    /\ capacity \in 1..MaxCapacity
    /\ rnow = 0
    /\ tat = NoTat
    /\ window = <<>>
    /\ slots = EmptyBag
    /\ rlast = RequestStep("new", "none", "none", FALSE, FALSE, FALSE)

\* A request reaches the server.
Arrive ==
    \E route \in Routes, authorized \in BOOLEAN :
        /\ BagCardinality(slots) < MaxCallers
        /\ authorized => route = "/api/upload/image"
        /\ route = "/api/auth/register" =>
            nextUserId + InServer(route) <= MaxUsers
        /\ route = "/api/auth/otp/send" =>
            nextRef + InServer(route) <= MaxRefs
        /\ slots' = slots (+) SetToBag({Req(route, authorized, 1, FALSE, FALSE)})
        /\ UNCHANGED <<capacity, rnow, tat, window, rlast>>
        /\ UNCHANGED <<otpVars, tokVars, authVars>>

\* rate_limit
RateLimit ==
    \E request \in BagToSet(slots) :
        LET check == test_and_update(tat, rnow) IN
        /\ AtLayer(request, "rate_limit")
        /\ IF check.allowed
            THEN /\ tat' = check.tat
                 /\ slots' = Leave(request)
                        (+) SetToBag({Advance(request, "rate_limit")})
                 /\ UNCHANGED rlast
            ELSE /\ slots' = Leave(request)
                 /\ rlast' = RequestStep("rate_limit", request.route, "429",
                                         TRUE, request.guarded, FALSE)
                 /\ UNCHANGED tat
        /\ UNCHANGED <<capacity, rnow, window>>
        /\ UNCHANGED <<otpVars, tokVars, authVars>>

\* auth_middleware as a layer of the protected routes.
AuthGuard ==
    \E request \in BagToSet(slots) :
        LET outcome == auth_middleware(HeaderOf(request)) IN
        /\ AtLayer(request, "auth_middleware")
        /\ IF outcome.invoked
            THEN /\ slots' = Leave(request)
                        (+) SetToBag({Advance(request, "auth_middleware")})
                 /\ UNCHANGED rlast
            ELSE /\ slots' = Leave(request)
                 /\ rlast' = RequestStep("auth_middleware", request.route,
                                         outcome.status, request.checked, TRUE,
                                         FALSE)
        /\ UNCHANGED <<capacity, rnow, tat, window>>
        /\ UNCHANGED <<otpVars, tokVars, authVars>>

\* register_handler behind the layers, the register call taken as one step.
HandleRegister ==
    \E request \in BagToSet(slots) :
        LET out == register_insert(users, PipelinePayload, "salt1") IN
        /\ AtHandler(request)
        /\ request.route = "/api/auth/register"
        /\ users' = out.users
        /\ nextUserId' = IF out.reply.tag = "Pending"
                            THEN nextUserId + 1
                            ELSE nextUserId
        /\ slots' = Leave(request)
        /\ rlast' = RequestStep("handler", request.route,
                                IF out.reply.tag = "Pending" THEN "200" ELSE "400",
                                request.checked, request.guarded, TRUE)
        /\ UNCHANGED <<inflight, registered, alast>>
        /\ UNCHANGED <<capacity, rnow, tat, window>>
        /\ UNCHANGED <<otpVars, tokVars>>

\* send_otp_handler behind the layers, with no WhatsApp client configured.
HandleSendOtp ==
    \E request \in BagToSet(slots), code \in GenCodes :
        /\ AtHandler(request)
        /\ request.route = "/api/auth/otp/send"
        /\ nextRef <= MaxRefs
        /\ otps' = insert(otps, nextRef, NewEntry(P_local, code))
        /\ nextRef' = nextRef + 1
        /\ last' = Call("send_otp", nextRef, "Ok", "none")
        /\ slots' = Leave(request)
        /\ rlast' = RequestStep("handler", request.route, "200",
                                request.checked, request.guarded, TRUE)
        /\ UNCHANGED <<config, now, pending, validCount, wrongRun, called>>
        /\ UNCHANGED <<capacity, rnow, tat, window>>
        /\ UNCHANGED <<tokVars, authVars>>

\* The handler of a protected route, and the fallback of the router for a
\* path without a route: neither writes the users table or the OTP store.
HandleOther ==
    \E request \in BagToSet(slots) :
        /\ AtHandler(request)
        /\ request.route \in {"/api/upload/image", "/unknown"}
        /\ slots' = Leave(request)
        /\ rlast' = RequestStep("handler", request.route,
                                IF request.route = "/unknown" THEN "404" ELSE "200",
                                request.checked, request.guarded, TRUE)
        /\ UNCHANGED <<capacity, rnow, tat, window>>
        /\ UNCHANGED <<otpVars, tokVars, authVars>>

\* The limiter's clock advances by one tick.
LimiterTick ==
    /\ rnow < MaxPipelineTicks
    /\ rnow' = rnow + 1
    /\ UNCHANGED <<capacity, tat, window, slots, rlast>>
    /\ UNCHANGED <<otpVars, tokVars, authVars>>

NextLimit ==
    \/ Arrive
    \/ RateLimit
    \/ AuthGuard
    \/ HandleRegister
    \/ HandleSendOtp
    \/ HandleOther
    \/ LimiterTick

SpecLimit == InitLimit /\ [][NextLimit]_vars

\* --------------------------------------------------------------------- C15
\* C15: for every request the rate-limiter check happens before the
\* AuthGuard and before the handler: a request that has not been checked is
\* about to enter rate_limit, and one that auth_middleware or a handler has
\* seen has been checked. When the check rejects, the request is answered
\* 429 without having entered auth_middleware or a handler, and the step
\* leaves the OTP store and the users table as they were.
C15_LimiterRunsFirst ==
    /\ [](/\ \A request \in BagToSet(slots) :
                /\ ~request.checked => AtLayer(request, "rate_limit")
                /\ request.guarded => request.checked
                /\ AtHandler(request) => request.checked
          /\ (rlast.guarded \/ rlast.handled) => rlast.checked)
    /\ [][\A request \in BagToSet(slots) :
            (AtLayer(request, "rate_limit") /\ slots' = Leave(request)) =>
                /\ rlast' = RequestStep("rate_limit", request.route, "429",
                                        TRUE, FALSE, FALSE)
                /\ otps' = otps
                /\ users' = users]_vars

\* A request with a valid token for the protected route has been answered
\* 429 after the handlers of two earlier requests wrote the users table and
\* the OTP store.
C15_Witness ==
    /\ rlast = RequestStep("rate_limit", "/api/upload/image", "429",
                           TRUE, FALSE, FALSE)
    /\ users # {}
    /\ DOMAIN otps # {}

\* --------------------------------------------------------------------- C16
RECURSIVE Sum(_)
Sum(counts) ==
    IF counts = <<>> THEN 0 ELSE Head(counts) + Sum(Tail(counts))

\* The number of requests allowed at the last ticks of the clock, the
\* current one included.
AllowedIn(ticks) ==
    Sum(SubSeq(window, Len(window) - ticks + 1, Len(window)))

\* C16 as claimed: with capacity c, in any rolling 1-second window the
\* number of requests the limiter allows, over all callers, is at most c.
C16_AtMostCapacity ==
    AllowedIn(Second) <= capacity

\* C16 amended: with capacity c, in any rolling 1-second window the number
\* of requests the limiter allows, over all callers, is at most 2c, and at
\* most 2c + 1 when the window includes both of its end instants; at most
\* c + 1 are allowed at one instant.
C16_AtMostTwiceCapacity ==
    /\ AllowedIn(Second) <= 2 * capacity
    /\ AllowedIn(Second + 1) <= 2 * capacity + 1
    /\ AllowedIn(1) <= capacity + 1

\* After an idle period a burst of c + 1 requests and the c - 1 requests
\* replenished in the rest of the second have all been allowed.
C16_Witness ==
    /\ capacity > 1
    /\ AllowedIn(Second) = 2 * capacity
    /\ window[1] = 0
    /\ window[2] = capacity + 1

\* ============================================================== OTP store
\* The reference ids send_otp generates here, in the order it generates
\* them.
StoreRefs == {1, 2}

\* The forms of one phone number, another number, and forms that carry
\* characters the handlers or normalize_phone drop.
P_cc == <<"6","2","8","1","2","3","4","5","6","7","8","9">>
P_other == <<"0","8","1","2","3","4","5","6","7","8","0">>
P_dashed == <<"0","8","1","2","-","3","4","5","6","-","7","8","9">>
P_padded == <<" ">> \o P_plus \o <<" ">>

\* Phones sent to /auth/otp/send, and to /auth/otp/verify: no phone is sent
\* to verify in the form it was sent to send in.
StoreSendPhones == {P_local, P_padded, P_short}
StoreVerifyPhones == {P_cc, P_other}

\* AppError: its variant and message.
AppError(kind, msg) == [kind |-> kind, msg |-> msg]

\* The status and the "error" member of the JSON body of a response
\* ("" in the body of a success).
Response(status, error) == [status |-> status, error |-> error]

\* Display of AppError (thiserror): the text of the variant, then the
\* message.
to_string(error) == error.kind \o ": " \o error.msg

\* impl IntoResponse for AppError: five variants have an arm of their own,
\* every other variant takes the `_` arm.
into_response(error) ==
    IF error.kind = "Unauthorized" THEN Response(401, error.msg)
    ELSE IF error.kind = "Forbidden" THEN Response(403, error.msg)
    ELSE IF error.kind = "BadRequest" THEN Response(400, error.msg)
    ELSE IF error.kind = "NotFound" THEN Response(404, error.msg)
    ELSE IF error.kind = "InternalServerError" THEN Response(500, error.msg)
    ELSE Response(500, to_string(error))

\* The Err of verify_otp for each of its results.
verify_otp_error(result) ==
    IF result = "NotFound" THEN AppError("NotFound", "Invalid reference ID")
    ELSE IF result = "Expired" THEN AppError("BadRequest", "OTP has expired")
    ELSE IF result = "AlreadyVerified"
        THEN AppError("BadRequest", "OTP has already been verified")
    ELSE AppError("TooManyRequests", "Maximum verification attempts exceeded")

Handled(response, result, store) ==
    [response |-> response, result |-> result, otps |-> store]

\* verify_otp_handler: the phone is trimmed, verify_otp called, Ok(true)
\* answered 200, Ok(false) turned into BadRequest("Invalid OTP code"), and
\* an Err passed on to into_response.  The code and the reference id are
\* taken as they are after their trim.
verify_otp_handler(map, reference_id, phone, code) ==
    LET out == verify_otp(map, reference_id, trim(phone), code) IN
    IF out.result = "Valid"
        THEN Handled(Response(200, ""), out.result, out.otps)
    ELSE IF out.result = "Invalid"
        THEN Handled(into_response(AppError("BadRequest", "Invalid OTP code")),
                     out.result, out.otps)
    ELSE Handled(into_response(verify_otp_error(out.result)), out.result, out.otps)

\* send_otp_handler and send_otp up to the end of the insert: the phone is
\* trimmed and validated, and the entry stored under the fresh reference id.
send_otp_insert(map, reference_id, phone, code) ==
    IF ~is_valid_phone(trim(phone))
        THEN Outcome("BadRequest", map)
        ELSE Outcome("Stored", insert(map, reference_id, NewEntry(trim(phone), code)))

\* A completed call on the store: the reference id it carried, its result,
\* and the reference ids of the entries it removed.
StoreCall(op, ref, result, removed) ==
    [op |-> op, ref |-> ref, result |-> result, removed |-> removed]

\* The configurations explored: the toggle off (the default configuration),
\* or on with either all provider settings or none of them.
StoreConfigs ==
    {c \in Configs :
        /\ c.api_url = c.api_token
        /\ c.api_token = c.phone_number_id
        /\ c.enabled \/ c.api_url = None}

InitStore ==
    /\ TokenOff
    /\ AuthOff
    /\ LimitOff
    /\ config \in StoreConfigs
    /\ otps = <<>>
    /\ now = 0
    /\ nextRef = 1
    /\ pending = {}
    /\ last = StoreCall("new", NoRef, "Ok", {})
    /\ validCount = [r \in Refs |-> 0]
    /\ wrongRun = [r \in Refs |-> 0]
    /\ called = {}

\* send_otp_handler up to the return of send_otp without a client, or up to
\* the await of client.send_otp.
StoreSendOtp ==
    \E phone \in StoreSendPhones, code \in GenCodes :
        LET out == send_otp_insert(otps, nextRef, phone, code) IN
        /\ nextRef \in StoreRefs
        /\ otps' = out.otps
        /\ IF out.result = "BadRequest"
            THEN /\ last' = StoreCall("send_otp", NoRef, "BadRequest", {})
                 /\ UNCHANGED <<nextRef, pending>>
            ELSE /\ nextRef' = nextRef + 1
                 /\ IF has_client
                     THEN /\ pending' = pending \cup {nextRef}
                          /\ last' = StoreCall("send_otp_insert", nextRef, "pending", {})
                     ELSE /\ last' = StoreCall("send_otp", nextRef, "Ok", {})
                          /\ UNCHANGED pending
        /\ UNCHANGED <<config, now, validCount, wrongRun, called>>
        /\ UNCHANGED otherVars

\* send_otp from the return of client.send_otp: Ok when the message was
\* sent or the client is configured, else the rollback.
StoreSendOtpReturn ==
    \E r \in pending :
        /\ pending' = pending \ {r}
        /\ IF is_enabled
            THEN /\ last' = StoreCall("send_otp", r, "Ok", {})
                 /\ UNCHANGED otps
            ELSE /\ otps' = remove(otps, r)
                 /\ last' = StoreCall("send_otp", r, "ServiceUnavailable",
                                      {r} \cap DOMAIN otps)
        /\ UNCHANGED <<config, now, nextRef, validCount, wrongRun, called>>
        /\ UNCHANGED otherVars

StoreVerifyOtp ==
    \E r \in StoreRefs, phone \in StoreVerifyPhones, code \in Codes :
        LET out == verify_otp_handler(otps, r, phone, code) IN
        /\ otps' = out.otps
        /\ last' = StoreCall("verify_otp", r, out.result,
                             DOMAIN otps \ DOMAIN out.otps)
        /\ UNCHANGED <<config, now, nextRef, pending, validCount, wrongRun, called>>
        /\ UNCHANGED otherVars

StoreCleanupExpired ==
    LET kept == cleanup_expired(otps) IN
    /\ otps' = kept
    /\ last' = StoreCall("cleanup_expired", NoRef, "Ok",
                         DOMAIN otps \ DOMAIN kept)
    /\ UNCHANGED <<config, now, nextRef, pending, validCount, wrongRun, called>>
    /\ UNCHANGED otherVars

StoreTick ==
    /\ now < MaxTime
    /\ now' = now + 1
    /\ last' = StoreCall("tick", NoRef, "Ok", {})
    /\ UNCHANGED <<config, otps, nextRef, pending, validCount, wrongRun, called>>
    /\ UNCHANGED otherVars

NextStore ==
    \/ StoreSendOtp
    \/ StoreSendOtpReturn
    \/ StoreVerifyOtp
    \/ StoreCleanupExpired
    \/ StoreTick

SpecStore == InitStore /\ [][NextStore]_vars

\* --------------------------------------------------------------------- C22
\* The response the claim gives for each result of verify_otp.
ClaimedResponse(result) ==
    IF result = "Valid" THEN Response(200, "")
    ELSE IF result = "Invalid" THEN Response(400, "Invalid OTP code")
    ELSE IF result = "Expired" THEN Response(400, "OTP has expired")
    ELSE IF result = "AlreadyVerified"
        THEN Response(400, "OTP has already been verified")
    ELSE IF result = "TooManyRequests"
        THEN Response(429, "Maximum verification attempts exceeded")
    ELSE Response(404, "Invalid reference ID")

\* C22 as claimed: through verify_otp_handler each result of verify_otp maps
\* to one fixed response: Valid to 200, Invalid to 400 "Invalid OTP code",
\* Expired to 400 "OTP has expired", AlreadyVerified to 400 "OTP has already
\* been verified", TooManyAttempts to 429 "Maximum verification attempts
\* exceeded", NotFound to 404 "Invalid reference ID".
C22_OutcomeToResponse ==
    \A r \in StoreRefs, phone \in StoreVerifyPhones, code \in Codes :
        LET out == verify_otp_handler(otps, r, phone, code) IN
        out.response = ClaimedResponse(out.result)

\* --------------------------------------------------------------------- C24
\* The age of the entry under r, and its TTL test, written from the clock.
EntryAge(r) == now - otps[r].created_at

\* C24: cleanup_expired removes exactly the entries whose age is strictly
\* greater than the TTL, leaves every other entry as it was (presence, code,
\* phone, attempts, verified), and a second run at the same instant changes
\* nothing.
C24_CleanupExact ==
    LET kept == cleanup_expired(otps) IN
    /\ DOMAIN kept = {r \in DOMAIN otps : EntryAge(r) <= config.otp_expiry_seconds}
    /\ \A r \in DOMAIN kept : kept[r] = otps[r]
    /\ cleanup_expired(kept) = kept

\* cleanup_expired has removed an entry and kept one whose age equals the TTL.
C24_Witness ==
    /\ last.op = "cleanup_expired"
    /\ last.removed # {}
    /\ \E r \in DOMAIN otps : EntryAge(r) = config.otp_expiry_seconds

\* --------------------------------------------------------------------- C25
\* Normalization as the claim words it: every non-digit stripped, then one
\* leading 0 replaced by 62.
RECURSIVE StripNonDigits(_)
StripNonDigits(s) ==
    IF s = <<>> THEN <<>>
    ELSE IF Head(s) \in Digits
        THEN <<Head(s)>> \o StripNonDigits(Tail(s))
        ELSE StripNonDigits(Tail(s))

Normalized(s) ==
    LET d == StripNonDigits(s) IN
    IF d # <<>> /\ Head(d) = "0" THEN <<"6","2">> \o Tail(d) ELSE d

\* The forms 0X, 62X and +62X of one number.
FormsOfOneNumber == {P_local, P_cc, P_plus}

\* Phones supplied to verify_otp: the three forms, a form with separators,
\* another number, and a number that is not a phone.
SuppliedPhones == FormsOfOneNumber \cup {P_dashed, P_other, P_short}

\* The entry under r passes the three checks made before the comparison.
Fresh(r) ==
    /\ EntryAge(r) <= config.otp_expiry_seconds
    /\ ~otps[r].verified
    /\ otps[r].attempts < config.max_attempts

\* C25: for an entry that is unexpired, unverified and below the attempt
\* limit, verify_otp with the stored code returns Valid iff the normalized
\* supplied phone equals the normalized stored phone (non-digits stripped,
\* one leading 0 replaced by 62); the forms 0X, 62X and +62X of one number
\* are interchangeable between send_otp and verify_otp.
C25_ValidIffSameNormalizedPhone ==
    \A r \in DOMAIN otps :
        Fresh(r) =>
            /\ \A phone \in SuppliedPhones :
                (verify_otp(otps, r, phone, otps[r].code).result = "Valid")
                    <=> (Normalized(phone) = Normalized(otps[r].phone))
            /\ otps[r].phone \in FormsOfOneNumber =>
                \A phone \in FormsOfOneNumber :
                    verify_otp(otps, r, phone, otps[r].code).result = "Valid"

\* A phone sent as +62X has been verified in the form 62X.
C25_Witness ==
    /\ last.op = "verify_otp"
    /\ last.result = "Valid"
    /\ last.ref \in DOMAIN otps
    /\ otps[last.ref].phone = P_plus
    /\ otps[last.ref].verified

\* --------------------------------------------------------------------- C26
DigitRun(n) == [i \in 1..n |-> "8"]

\* Phones offered to send_otp: each prefix followed by 8, 9, 12 and 13
\* digits, a number without a prefix, one with separators, one with a letter
\* after nine digits, and the empty phone.
PhoneSamples ==
    {p \o DigitRun(n) : p \in PhonePrefixes, n \in {8, 9, 12, 13}}
        \cup {DigitRun(10), P_dashed, <<"0">> \o DigitRun(9) \o <<"a">>, <<>>}

\* A prefix of the three, then digits only.
PrefixThenDigits(phone, p) ==
    /\ starts_with(phone, p)
    /\ StripNonDigits(skip(phone, Len(p))) = skip(phone, Len(p))

\* The phones the claim accepts: 10 to 13 digits in total.
TenToThirteenDigits(phone) ==
    /\ \E p \in PhonePrefixes : PrefixThenDigits(phone, p)
    /\ Len(StripNonDigits(phone)) \in 10..13

\* The phones with 9 to 12 digits after the prefix.
NineToTwelveAfterPrefix(phone) ==
    \E p \in PhonePrefixes :
        /\ PrefixThenDigits(phone, p)
        /\ Len(phone) - Len(p) \in 9..12

\* send_otp stores an entry for the accepted phones and no others.
AcceptsExactly(Accepted(_)) ==
    \A phone \in PhoneSamples, code \in GenCodes :
        LET out == send_otp_insert(otps, nextRef, phone, code) IN
        IF Accepted(phone)
            THEN /\ out.result = "Stored"
                 /\ out.otps = insert(otps, nextRef, NewEntry(phone, code))
            ELSE /\ out.result = "BadRequest"
                 /\ out.otps = otps

\* 62 followed by 8 digits: 10 digits in total.
TenDigits62 == <<"6","2">> \o DigitRun(8)

\* A completed send_otp: the phone it was given, its result, and whether
\* TenDigits62 has been rejected so far.
PhoneCall(op, phone, result, rejected) ==
    [op |-> op, phone |-> phone, result |-> result, rejected |-> rejected]

\* The service without a WhatsApp client (the default configuration), its
\* store empty.
InitPhone ==
    /\ TokenOff
    /\ AuthOff
    /\ LimitOff
    /\ config \in {c \in StoreConfigs : ~c.enabled}
    /\ otps = <<>>
    /\ now = 0
    /\ nextRef = 1
    /\ pending = {}
    /\ last = PhoneCall("new", <<>>, "Ok", {})
    /\ validCount = [r \in Refs |-> 0]
    /\ wrongRun = [r \in Refs |-> 0]
    /\ called = {}

\* send_otp_handler and send_otp without a client, for each sample phone.
PhoneSendOtp ==
    \E phone \in PhoneSamples, code \in GenCodes :
        LET out == send_otp_insert(otps, nextRef, phone, code) IN
        /\ nextRef \in StoreRefs
        /\ ~has_client
        /\ otps' = out.otps
        /\ IF out.result = "BadRequest"
            THEN /\ last' = PhoneCall("send_otp", phone, "BadRequest",
                                      last.rejected \cup ({phone} \cap {TenDigits62}))
                 /\ UNCHANGED nextRef
            ELSE /\ last' = PhoneCall("send_otp", phone, "Ok", last.rejected)
                 /\ nextRef' = nextRef + 1
        /\ UNCHANGED <<config, now, pending, validCount, wrongRun, called>>
        /\ UNCHANGED otherVars

NextPhone == PhoneSendOtp

SpecPhone == InitPhone /\ [][NextPhone]_vars

\* C26 as claimed: send_otp accepts a phone iff it is a leading +62, 62 or 0
\* followed only by digits with 10 to 13 digits in total; every other phone
\* returns BadRequest and no entry is stored.
C26_TotalDigits == AcceptsExactly(TenToThirteenDigits)

\* C26, amended: send_otp accepts a phone iff it is a leading +62, 62 or 0
\* followed by 9 to 12 digits and nothing else (10 to 13 digits in total for
\* the 0 form, 11 to 14 for the 62 and +62 forms); every other phone returns
\* BadRequest and no entry is stored.
C26_DigitsAfterPrefix == AcceptsExactly(NineToTwelveAfterPrefix)

\* send_otp has stored 62 followed by 12 digits (14 digits in total) after
\* it rejected 62 followed by 8 digits (10 digits in total).
C26_Witness ==
    /\ last.op = "send_otp"
    /\ last.phone = <<"6","2">> \o DigitRun(12)
    /\ last.result = "Ok"
    /\ TenDigits62 \in last.rejected
    /\ \E r \in DOMAIN otps : otps[r].phone = last.phone

\* --------------------------------------------------------------------- C27
\* The result of verify_otp when its checks are made in the order NotFound,
\* Expired, AlreadyVerified, TooManyAttempts, code, phone.
ResultInOrder(r, phone, code) ==
    IF r \notin DOMAIN otps THEN "NotFound"
    ELSE IF EntryAge(r) > config.otp_expiry_seconds THEN "Expired"
    ELSE IF otps[r].verified THEN "AlreadyVerified"
    ELSE IF otps[r].attempts >= config.max_attempts THEN "TooManyRequests"
    ELSE IF code # otps[r].code THEN "Invalid"
    ELSE IF Normalized(phone) # Normalized(otps[r].phone) THEN "Invalid"
    ELSE "Valid"

\* C27: verify_otp evaluates its checks in the fixed order NotFound, Expired,
\* AlreadyVerified, TooManyAttempts, increment, code mismatch, phone mismatch:
\* an expired entry that is verified yields Expired and is removed, a
\* verified entry whose attempts equal max_attempts yields AlreadyVerified
\* and is not removed, and an unverified entry with attempts >= max_attempts
\* yields TooManyAttempts without a further increment even when the supplied
\* code is correct.
C27_CheckOrder ==
    \A r \in StoreRefs, phone \in StoreVerifyPhones, code \in Codes :
        LET out == verify_otp(otps, r, phone, code) IN
        /\ out.result = ResultInOrder(r, phone, code)
        /\ out.result \in {"Expired", "TooManyRequests"} =>
                out.otps = [k \in DOMAIN otps \ {r} |-> otps[k]]
        /\ out.result \in {"NotFound", "AlreadyVerified"} => out.otps = otps
        /\ out.result \in {"Invalid", "Valid"} =>
                /\ r \in DOMAIN out.otps
                /\ out.otps[r].attempts = otps[r].attempts + 1
        /\ r \in DOMAIN otps =>
            /\ EntryAge(r) > config.otp_expiry_seconds /\ otps[r].verified =>
                    out.result = "Expired" /\ r \notin DOMAIN out.otps
            /\ /\ EntryAge(r) <= config.otp_expiry_seconds
               /\ otps[r].verified
               /\ otps[r].attempts = config.max_attempts
               => out.result = "AlreadyVerified" /\ out.otps = otps
            /\ /\ EntryAge(r) <= config.otp_expiry_seconds
               /\ ~otps[r].verified
               /\ otps[r].attempts >= config.max_attempts
               => out.result = "TooManyRequests" /\ r \notin DOMAIN out.otps

\* verify_otp has answered AlreadyVerified for an entry whose attempts equal
\* max_attempts, and the entry is still stored.
C27_Witness ==
    /\ last.op = "verify_otp"
    /\ last.result = "AlreadyVerified"
    /\ last.ref \in DOMAIN otps
    /\ otps[last.ref].verified
    /\ otps[last.ref].attempts = config.max_attempts

\* --------------------------------------------------------------------- C28
\* C28: with max_attempts = N, a verify_otp call with the correct code and a
\* matching phone on an unexpired entry after exactly N-1 failed attempts
\* returns Valid and sets verified = true with attempts = N: the successful
\* call counts as an attempt.
C28_LastAttemptSucceeds ==
    \A r \in DOMAIN otps, phone \in FormsOfOneNumber :
        /\ EntryAge(r) <= config.otp_expiry_seconds
        /\ ~otps[r].verified
        /\ otps[r].attempts = config.max_attempts - 1
        /\ Normalized(phone) = Normalized(otps[r].phone)
        => LET out == verify_otp(otps, r, phone, otps[r].code) IN
            /\ out.result = "Valid"
            /\ out.otps[r].verified
            /\ out.otps[r].attempts = config.max_attempts
            /\ out.otps[r].attempts = otps[r].attempts + 1

\* The second of two allowed attempts has verified the entry after a failed
\* first one.
C28_Witness ==
    /\ last.op = "verify_otp"
    /\ last.result = "Valid"
    /\ config.max_attempts >= 2
    /\ last.ref \in DOMAIN otps
    /\ otps[last.ref].verified
    /\ otps[last.ref].attempts = config.max_attempts

\* --------------------------------------------------------------------- C30
\* Every entry of `before` under a reference id other than r is in `after`
\* as it was, and `after` has no entry that `before` had not.
OthersKept(before, after, r) ==
    /\ DOMAIN after \subseteq DOMAIN before
    /\ \A k \in DOMAIN before \ {r} : k \in DOMAIN after /\ after[k] = before[k]

\* A step that completes the rollback of a failed send_otp.
RollbackStep ==
    /\ last'.op = "send_otp"
    /\ last'.result = "ServiceUnavailable"

\* C30: a verify_otp call on reference id r, and the rollback of a failed
\* send_otp for r, leave the entry of every other reference id unchanged; a
\* verify_otp call that returns NotFound leaves the whole store unchanged.
C30_OtherEntriesUnchanged ==
    /\ [](\A r \in StoreRefs, phone \in StoreVerifyPhones, code \in Codes :
            LET out == verify_otp(otps, r, phone, code) IN
            /\ OthersKept(otps, out.otps, r)
            /\ out.result = "NotFound" => out.otps = otps)
    /\ [][RollbackStep => OthersKept(otps, otps', last'.ref)]_vars

\* A rollback has removed its entry while another entry is stored.
C30_Witness ==
    /\ last.op = "send_otp"
    /\ last.result = "ServiceUnavailable"
    /\ last.removed = {last.ref}
    /\ DOMAIN otps # {}

\* ============================================================ login checks
\* --------------------------------------------------------------------- C21
\* C21 as claimed: on every login call whose directory lookup completes, the
\* KDF verify is executed exactly once before the decision is made, against
\* the stored hash or against the dummy hash, whether or not the user
\* exists.
C21_OneKdfRunPerLogin ==
    \A unique_code \in LoginCodes, password \in LoginPasswords :
        Len(password) <= 32 =>
            password_check(users, trim(unique_code), password).kdf = 1

\* --------------------------------------------------------------------- C29
\* C29: login returns a token only when a user record was found for the
\* unique_code and the KDF verify of the supplied password against that
\* record's own stored hash returned true; a password that verifies against
\* the dummy hash, or a verify that fails to parse the stored hash, never
\* yields a token.
C29_TokenOnlyForOwnHash ==
    \A unique_code \in LoginCodes, password \in LoginPasswords :
        LET reply == login_user(users, unique_code, password)
            found == {u \in users : u.unique_code = unique_code} IN
        /\ reply.tag \in {"Ok", "Unauthorized"}
        /\ reply.tag = "Ok" =>
            \E u \in found :
                /\ u.password_hash.present
                /\ u.password_hash.wellformed
                /\ u.password_hash.digest_of = password
                /\ reply.token = [sub |-> u.id, role |-> u.role]
        /\ found = {} /\ DummyHash.digest_of = password =>
                reply.tag = "Unauthorized"
        /\ (\A u \in found : ~u.password_hash.wellformed) =>
                reply.tag = "Unauthorized"

\* A login has been granted a token while the table also holds a user whose
\* stored hash does not parse and one without a hash.
C29_Witness ==
    /\ alast.op = "login"
    /\ alast.reply.tag = "Ok"
    /\ \E u \in users :
        /\ u.unique_code = alast.unique_code
        /\ u.id = alast.reply.token.sub
        /\ u.password_hash.wellformed
    /\ BrokenUser \in users
    /\ SeedUser \in users

\* ==================================================== failures of the backend
\* The points at which register_user and login_user can fail for a cause
\* outside the request: Argon2 hashing, the INSERT, the SELECT of the created
\* row (an error, or no row), the directory lookup, and the signing of the
\* token.
RegisterFaults == {"none", "hash", "insert", "select", "missing", "sign"}
LoginFaults == {"none", "lookup", "sign"}

\* e.to_string() of an error of the argon2 and jsonwebtoken crates.
CrateErrorText(crate) == crate \o " error"

FaultPayloads ==
    {Payload(Al_padded, "Kitchen", unique_code, Str(8), phone, NoInstitution) :
        unique_code \in {K1, K2}, phone \in {NoPhone, LongPhone}}

\* register_handler and register_user with a failure at the point `fault`.
register_with(table, payload, salt, fault) ==
    LET clean == sanitize(payload)
        checked == validate(clean) IN
    IF checked # Valid THEN Registering(checked, table, 0)
    ELSE IF fault = "hash"
        THEN Registering(InternalServerError(CrateErrorText("argon2")), table, 0)
    ELSE IF fault = "insert"
        THEN Registering(InternalServerError("An unexpected error occurred"), table, 0)
    ELSE LET out == register_insert(table, payload, salt) IN
        IF out.reply.tag # "Pending" THEN out
        ELSE IF fault = "select"
            THEN Registering(InternalServerError("Failed to retrieve created user"),
                             out.users, out.id)
        ELSE IF fault = "missing"
            THEN LET gone == {u \in out.users : u.id # out.id} IN
                 Registering(register_finish(gone, out.id), gone, out.id)
        ELSE IF fault = "sign"
            THEN Registering(InternalServerError(CrateErrorText("jsonwebtoken")),
                             out.users, out.id)
        ELSE Registering(register_finish(out.users, out.id), out.users, out.id)

\* login_handler and login_user with a failure at the point `fault`.
login_with(table, unique_code, password, fault) ==
    LET reply == login_handler(table, unique_code, password) IN
    IF Len(password) > 32 THEN reply
    ELSE IF fault = "lookup" THEN InternalServerError("Database error")
    ELSE IF fault = "sign" /\ reply.tag = "Ok"
        THEN InternalServerError(CrateErrorText("jsonwebtoken"))
    ELSE reply

\* The response of the handler for the Result of the service.
respond(reply) ==
    IF reply.tag = "Created" THEN Response(201, "")
    ELSE IF reply.tag = "Ok" THEN Response(200, "")
    ELSE into_response(AppError(reply.tag, reply.msg))

\* A completed request: the Result of the service and the response sent.
FaultCall(op, fault, reply) ==
    [op |-> op, fault |-> fault, reply |-> reply, response |-> respond(reply)]

InitFault ==
    /\ OtpOff
    /\ TokenOff
    /\ LimitOff
    /\ users \in {{}, {SeedUser, BrokenUser}}
    /\ nextUserId = 1
    /\ inflight = {}
    /\ registered = {}
    /\ alast = FaultCall("new", "none", Reply("Ok", "", 0))

FaultRegister ==
    \E payload \in FaultPayloads, fault \in RegisterFaults :
        LET out == register_with(users, payload, "salt1", fault) IN
        /\ nextUserId <= MaxUsers
        /\ users' = out.users
        /\ nextUserId' = IF out.id # 0 THEN nextUserId + 1 ELSE nextUserId
        /\ alast' = FaultCall("register", fault, out.reply)
        /\ UNCHANGED <<inflight, registered>>
        /\ UNCHANGED <<otpVars, tokVars, limVars>>

FaultLogin ==
    \E unique_code \in {K1, K2, <<"N","O">>}, password \in {Str(8), Str(9)},
       fault \in LoginFaults :
        /\ alast' = FaultCall("login", fault,
                              login_with(users, unique_code, password, fault))
        /\ UNCHANGED <<users, nextUserId, inflight, registered>>
        /\ UNCHANGED <<otpVars, tokVars, limVars>>

NextFault ==
    \/ FaultRegister
    \/ FaultLogin

SpecFault == InitFault /\ [][NextFault]_vars

\* --------------------------------------------------------------------- C23
\* C23 as claimed: every InternalError that reaches the HTTP boundary from
\* register or login (hash failure, directory backend error, created record
\* not found, token signing failure) produces status 500 with the error
\* message exactly "An unexpected error occurred", whatever the cause.
C23_InternalErrorScrubbed ==
    alast.reply.tag = "InternalServerError" =>
        alast.response = Response(500, "An unexpected error occurred")

====
